---- MODULE Spec2Model ----
(***************************************************************************)
(* The display-list interpreter of helix: the RCP orchestrator (run,       *)
(* run_dl), the GBI opcode dispatcher (handle_command) and the RDP         *)
(* rasterizer state (render-state diffing, batching and flush), with the   *)
(* graphics backend recorded as the calls it receives.                     *)
(***************************************************************************)
EXTENDS Integers, Sequences, FiniteSets, TLC

VARIABLES
    mem,               \* the command memory the display list is read from
    gbi_opcode_table,  \* GBI.gbi_opcode_table: opcode -> handler
    status,            \* where the RCP is: idle, running, done, panic, overflow, fault
    stack,             \* the `command` cursor of every active run_dl frame, outermost first
    last,              \* the outcome of the latest run_dl iteration
    runs,              \* number of run calls made so far
    rdp,               \* the RDP struct
    rsp,               \* the RSP fields the RDP reads
    gfx,               \* the backend: the value last submitted for every piece of state
    calls,             \* the backend and decoder calls of the latest operation, in order
    op                 \* the name of the latest operation

vars == <<mem, gbi_opcode_table, status, stack, last, runs, rdp, rsp, gfx, calls, op>>

-----------------------------------------------------------------------------
(* Bounds of the model *)

\* number of commands in the command buffer
MemSize == 3
\* run_dl frames the native stack holds before it overflows
MaxDepth == 4
\* commands past the end of the buffer a stray cursor may still read
MaxOverrun == 1
\* run calls per behaviour
MaxRuns == 2
\* number of commands in the command buffer of a frame
FrameSize == 5
\* triangles the host leaves pending while it changes render state
MaxPending == 2
\* single floats the host appends on top of whole triangles
MaxLoose == 2
\* register and handle_command calls per behaviour
MaxCalls == 4

Addr == 0 .. (MemSize - 1)

-----------------------------------------------------------------------------
(* Commands: Gfx words, the opcode in the high byte of w0 *)

\* a u32 is kept as its two 16-bit halves: [hi, lo]
U32(hi, lo) == [hi |-> hi, lo |-> lo]

Pow2(n) == IF n = 0 THEN 1 ELSE 2 ^ n

\* (x >> shift) & (2^width - 1)
Field(x, shift, width) ==
    IF shift >= 16
    THEN (x.hi \div Pow2(shift - 16)) % Pow2(width)
    ELSE IF shift + width <= 16
         THEN (x.lo \div Pow2(shift)) % Pow2(width)
         ELSE (x.lo \div Pow2(shift)) + (x.hi % Pow2(shift + width - 16)) * Pow2(16 - shift)

G_NOOP == 0
G_TRI1 == 5
G_MOVEMEM == 220
G_DL == 222
G_ENDDL == 223
G_SETCOMBINE == 252
\* an opcode byte the microcode table has no handler for
G_SPARE == 255

\* w1 is the command's argument, decoded: an address, a combine, a viewport, vertex ids
Cmd(opcode, w1) == [w0 |-> U32(opcode * 256, 0), w1 |-> w1]

NoArg == [addr |-> 0]

\* GBI::setup: the handlers the microcode family registers
setup ==
    [o \in {G_NOOP, G_TRI1, G_MOVEMEM, G_DL, G_ENDDL, G_SETCOMBINE} |->
        CASE o = G_NOOP -> "gsp_noop"
          [] o = G_TRI1 -> "gsp_tri1"
          [] o = G_MOVEMEM -> "gsp_movemem"
          [] o = G_DL -> "gsp_display_list"
          [] o = G_ENDDL -> "gsp_end_display_list"
          [] o = G_SETCOMBINE -> "gdp_set_combine"]

-----------------------------------------------------------------------------
(* GBIResult, as RCP::run_dl matches it *)

Continue == [kind |-> "Continue"]
Recurse(target) == [kind |-> "Recurse", target |-> target]
Unknown(opcode) == [kind |-> "Unknown", opcode |-> opcode]
Return == [kind |-> "Return"]

\* the handlers: each maps (rdp/rsp/backend world, command) to the new world and a GBIResult
gsp_noop(w, command) == [w |-> w, res |-> Continue]

gsp_display_list(w, command) == [w |-> w, res |-> Recurse(command.w1.addr)]

gsp_end_display_list(w, command) == [w |-> w, res |-> Return]

-----------------------------------------------------------------------------
(* RDP *)

MAX_VBO_SIZE == 256
\* floats per vertex and vertices per triangle in buf_vbo
VTX_FLOATS == 26
TRI_VTXS == 3
VBO_FLOATS == MAX_VBO_SIZE * (VTX_FLOATS * TRI_VTXS)

SCREEN_WIDTH == 320
SCREEN_HEIGHT == 240

\* OtherModeLayoutL
Z_CMP == 4
Z_UPD == 5
ZMODE == 10
CVG_X_ALPHA == 12
ALPHA_CVG_SEL == 13
FORCE_BL == 14
B_2 == 16
M_2 == 20
A_2 == 24
P_2 == 28

\* ZMode
ZMODE_OPA == 0
ZMODE_INTER == 1
ZMODE_XLU == 2
ZMODE_DEC == 3

\* BlendParamPMColor, BlendParamA, BlendParamB
G_BL_CLR_IN == 0
G_BL_CLR_MEM == 1
G_BL_0 == 3
G_BL_1MA == 0
G_BL_A_MEM == 1
G_BL_1 == 2

\* RSPGeometry::G_ZBUFFER
G_ZBUFFER == 1

Rect(x, y, width, height) == [x |-> x, y |-> y, width |-> width, height |-> height]

Rect_ZERO == Rect(0, 0, 0, 0)

OutputDimensions_ZERO == [width |-> 0, height |-> 0]

BlendComponent(src, dst) == [src_factor |-> src, dst_factor |-> dst, operation |-> "Add"]

BlendState(component) == [color |-> component, alpha |-> component]

BlendState_REPLACE == BlendState(BlendComponent("One", "Zero"))

NULL == 0

CombineParams_ZERO == [c0 |-> <<0, 0, 0, 0>>, a0 |-> <<0, 0, 0, 0>>]

\* Texture::EMPTY: no texture of the cache
Texture_EMPTY ==
    [number |-> 0, key |-> [tmem_index |-> 0, address |-> 0, fmt |-> 0, siz |-> 0],
     linear_filter |-> FALSE, cms |-> 0, cmt |-> 0]

RenderingState_EMPTY ==
    [depth_compare |-> "Always",
     depth_test |-> FALSE,
     depth_write |-> FALSE,
     polygon_offset |-> FALSE,
     blend_state |-> BlendState_REPLACE,
     viewport |-> Rect_ZERO,
     scissor |-> Rect_ZERO,
     shader_program |-> NULL,
     textures |-> <<Texture_EMPTY, Texture_EMPTY>>]

\* RDP::new
RDP_new ==
    [output_dimensions |-> OutputDimensions_ZERO,
     rendering_state |-> RenderingState_EMPTY,
     texture_manager |-> {},
     texture_state |-> [tile |-> 0],
     texture_image_state |-> [address |-> 0],
     tile_descriptors |-> [index \in 0 .. 7 |-> [format |-> 0, size |-> 0, cm_s |-> 0, cm_t |-> 0]],
     tmem_map |-> {},
     textures_changed |-> <<FALSE, FALSE>>,
     viewport |-> Rect_ZERO,
     scissor |-> Rect_ZERO,
     viewport_or_scissor_changed |-> FALSE,
     color_combiner_manager |-> [combiners |-> {}, current_combiner |-> <<>>],
     combine |-> CombineParams_ZERO,
     other_mode_l |-> U32(0, 0),
     other_mode_h |-> U32(0, 0),
     buf_vbo_len |-> 0,
     buf_vbo_num_tris |-> 0]

\* the length of the vertex staging table, a fixed-size array shorter than the range of
\* the 8-bit ids that address it
VERTEX_TABLE_LEN == 4

RSP_new == [geometry_mode |-> 0, vertex_table |-> [id \in 0 .. VERTEX_TABLE_LEN - 1 |-> id]]

\* the backend before any call: for every piece of state the value last submitted,
\* <<v>>, or <<>> when nothing was submitted yet; and the shaders it has created, a
\* shader's handle being its place in creation order
GFX_new ==
    [depth_compare |-> <<>>,
     depth_test |-> <<>>,
     depth_write |-> <<>>,
     polygon_offset |-> <<>>,
     blend_state |-> <<>>,
     viewport |-> <<>>,
     scissor |-> <<>>,
     shaders |-> <<>>]

\* RDP::reset
RDP_reset(r) == r

\* the state an operation works on; `calls` collects its backend calls
World == [rdp |-> rdp, rsp |-> rsp, gfx |-> gfx, calls |-> <<>>, panic |-> FALSE]

\* a call of a backend state setter: `pending` is the batch length when it is made
backend_set(w, fn, field, value) ==
    [w EXCEPT !.calls = Append(@, [fn |-> fn, arg |-> value,
                                   pending |-> w.rdp.buf_vbo_len]),
              !.gfx[field] = <<value>>]

\* a flush that submits the batch and leaves the triangle count standing
flush_keep_tris(w) ==
    IF w.rdp.buf_vbo_len > 0
    THEN [w EXCEPT !.calls = Append(@, [fn |-> "draw_triangles",
                                        arg |-> <<w.rdp.buf_vbo_len, w.rdp.buf_vbo_num_tris>>,
                                        pending |-> w.rdp.buf_vbo_len]),
                   !.rdp.buf_vbo_len = 0]
    ELSE w

\* RDP::flush
flush(w) ==
    IF w.rdp.buf_vbo_len > 0
    THEN [w EXCEPT !.calls = Append(@, [fn |-> "draw_triangles",
                                        arg |-> <<w.rdp.buf_vbo_len, w.rdp.buf_vbo_num_tris>>,
                                        pending |-> w.rdp.buf_vbo_len]),
                   !.rdp.buf_vbo_len = 0,
                   !.rdp.buf_vbo_num_tris = 0]
    ELSE w

(* The colour combiner: combine expressions, the shader id and the combiner cache *)

\* the operands of the colour pass of a combine expression
CCMUX ==
    [COMBINED |-> 0, TEXEL0 |-> 1, TEXEL1 |-> 2, PRIMITIVE |-> 3, SHADE |-> 4,
     ENVIRONMENT |-> 5, TEXEL0_ALPHA |-> 6, LOD_FRACTION |-> 7]

\* the operands of the alpha pass
ACMUX ==
    [COMBINED |-> 0, TEXEL0 |-> 1, TEXEL1 |-> 2, PRIMITIVE |-> 3, SHADE |-> 4,
     ENVIRONMENT |-> 5, ZERO |-> 7]

\* the sources of a generated shader: nothing, the four inputs, the texels
SHADER ==
    [ZERO |-> 0, INPUT_1 |-> 1, INPUT_2 |-> 2, INPUT_3 |-> 3, INPUT_4 |-> 4,
     TEXEL0 |-> 5, TEXEL0A |-> 6, TEXEL1 |-> 7]

\* the locals of one pass before its loop: input_number = [0u8; 8],
\* next_input_number = INPUT_1, this pass's row of shader_input_mapping, no val yet
pass_start ==
    [input_number |-> [property \in 0 .. 7 |-> 0],
     next_input_number |-> SHADER.INPUT_1,
     shader_input_mapping |-> <<0, 0, 0, 0>>,
     val |-> <<>>]

\* one iteration of the loop, with every reference to an operand taking a new number
pass_operand_no_reuse(s, operand, texels, inputs) ==
    IF operand \in DOMAIN texels
    THEN [s EXCEPT !.val = Append(@, texels[operand])]
    ELSE IF operand \in inputs
    THEN [s EXCEPT !.shader_input_mapping[s.next_input_number] = operand,
                   !.input_number[operand] = s.next_input_number,
                   !.next_input_number = @ + 1,
                   !.val = Append(@, s.next_input_number)]
    ELSE [s EXCEPT !.val = Append(@, 0)]

\* one iteration of the loop of a pass: the val of operand i
pass_operand(s, operand, texels, inputs) ==
    IF operand \in DOMAIN texels
    THEN [s EXCEPT !.val = Append(@, texels[operand])]
    ELSE IF operand \in inputs
    THEN IF s.input_number[operand] = 0
         THEN [s EXCEPT !.shader_input_mapping[s.next_input_number] = operand,
                        !.input_number[operand] = s.next_input_number,
                        !.next_input_number = @ + 1,
                        !.val = Append(@, s.next_input_number)]
         ELSE [s EXCEPT !.val = Append(@, s.input_number[operand])]
    ELSE [s EXCEPT !.val = Append(@, 0)]

\* the loop `for i in 0..4` of a pass over its four operands
pass(operands, texels, inputs) ==
    pass_operand(
        pass_operand(
            pass_operand(
                pass_operand(pass_start, operands[1], texels, inputs),
                operands[2], texels, inputs),
            operands[3], texels, inputs),
        operands[4], texels, inputs)

\* val << (shift + i * 3) for the four vals of a pass, or-ed together
shifted(val, shift) ==
    Pow2(shift) * (val[1] + 8 * val[2] + 64 * val[3] + 512 * val[4])

\* the shader id: the top byte of cc_id and the vals of both passes
shader_id_of(cc_id, color, alpha) ==
    (cc_id \div Pow2(24)) * Pow2(24) + shifted(color.val, 0) + shifted(alpha.val, 12)

\* the backend's lookup_shader: the handle of a shader it has created, or null
lookup_shader(w, shader_id) ==
    IF \E h \in DOMAIN w.gfx.shaders : w.gfx.shaders[h] = shader_id
    THEN CHOOSE h \in DOMAIN w.gfx.shaders : w.gfx.shaders[h] = shader_id
    ELSE NULL

\* a call of the backend or of a texel decoder, recorded like the state setters
backend_call(w, fn, arg) ==
    [w EXCEPT !.calls = Append(@, [fn |-> fn, arg |-> arg, pending |-> w.rdp.buf_vbo_len])]

\* a shader created whether the backend knows it or not
shader_program_created(w, shader_id, found) ==
    [backend_call(
         backend_call(w, "unload_shader", w.rdp.rendering_state.shader_program),
         "create_and_load_new_shader", shader_id)
       EXCEPT !.gfx.shaders = Append(@, shader_id),
              !.rdp.rendering_state.shader_program = Len(w.gfx.shaders) + 1]

\* RDP::lookup_or_create_shader_program, after the call of lookup_shader: a shader the
\* backend creates gets the next handle
shader_program_found(w, shader_id, found) ==
    IF found = NULL
    THEN [backend_call(
              backend_call(w, "unload_shader", w.rdp.rendering_state.shader_program),
              "create_and_load_new_shader", shader_id)
            EXCEPT !.gfx.shaders = Append(@, shader_id),
                   !.rdp.rendering_state.shader_program = Len(w.gfx.shaders) + 1]
    ELSE w

\* RDP::lookup_or_create_shader_program: the world after it; the handle it returns is
\* lookup_shader in that world
lookup_or_create_shader_program(w, shader_id) ==
    shader_program_found(backend_call(w, "lookup_shader", shader_id), shader_id,
                         lookup_shader(w, shader_id))

\* ColorCombiner::new
ColorCombiner(shader_id, shader_program, shader_input_mapping) ==
    [shader_id |-> shader_id, shader_program |-> shader_program,
     shader_input_mapping |-> shader_input_mapping]

\* the entries of the cache under a combine id
lookup_color_combiner(w, cc_id) ==
    {e \in w.rdp.color_combiner_manager.combiners : e.cc_id = cc_id}

\* an insert that keys the cache by the shader id of the combiner
insert_combiner_by_shader(w, cc_id, combiner) ==
    [w EXCEPT !.rdp.color_combiner_manager.combiners =
        {e \in @ : e.combiner.shader_id # combiner.shader_id}
            \cup {[cc_id |-> cc_id, combiner |-> combiner]}]

\* combiners.insert(cc_id, combiner): the entry under cc_id becomes the combiner
insert_combiner(w, cc_id, combiner) ==
    [w EXCEPT !.rdp.color_combiner_manager.combiners =
        {e \in @ : e.cc_id # cc_id} \cup {[cc_id |-> cc_id, combiner |-> combiner]}]

\* the end of generate_color_combiner: the shader program, then the cache entry
store_combiner(w, cc_id, shader_id, color, alpha) ==
    insert_combiner(lookup_or_create_shader_program(w, shader_id), cc_id,
        ColorCombiner(shader_id,
                      lookup_shader(lookup_or_create_shader_program(w, shader_id), shader_id),
                      <<color.shader_input_mapping, alpha.shader_input_mapping>>))

\* the middle of generate_color_combiner: the shader id of the two passes
generate_passes(w, cc_id, color, alpha) ==
    store_combiner(w, cc_id, shader_id_of(cc_id, color, alpha), color, alpha)

\* RDP::generate_color_combiner: the passes read the operands of rdp.combine; the
\* match arms of a pass are its operands with a fixed shader source and its operands
\* that take an input number
generate_color_combiner(w, cc_id) ==
    generate_passes(w, cc_id,
        pass(w.rdp.combine.c0,
             (CCMUX.TEXEL0 :> SHADER.TEXEL0) @@ (CCMUX.TEXEL1 :> SHADER.TEXEL1)
                 @@ (CCMUX.TEXEL0_ALPHA :> SHADER.TEXEL0A),
             {CCMUX.PRIMITIVE, CCMUX.SHADE, CCMUX.ENVIRONMENT, CCMUX.LOD_FRACTION}),
        pass(w.rdp.combine.a0,
             (ACMUX.TEXEL0 :> SHADER.TEXEL0) @@ (ACMUX.TEXEL1 :> SHADER.TEXEL1),
             {ACMUX.PRIMITIVE, ACMUX.SHADE, ACMUX.ENVIRONMENT}))

\* RDP::create_color_combiner
create_color_combiner(w, cc_id) ==
    [generate_color_combiner(flush(w), cc_id)
        EXCEPT !.rdp.color_combiner_manager.current_combiner = <<cc_id>>]

\* lookup_or_create_color_combiner without the lookup
lookup_or_create_color_combiner_always(w, cc_id) == create_color_combiner(w, cc_id)

\* RDP::lookup_or_create_color_combiner
lookup_or_create_color_combiner(w, cc_id) ==
    IF lookup_color_combiner(w, cc_id) # {}
    THEN w
    ELSE create_color_combiner(w, cc_id)

(* Textures: the texture cache and the import of a tile's texture *)

ImageFormat ==
    [G_IM_FMT_RGBA |-> 0, G_IM_FMT_YUV |-> 1, G_IM_FMT_CI |-> 2, G_IM_FMT_IA |-> 3,
     G_IM_FMT_I |-> 4]

ImageSize == [G_IM_SIZ_4b |-> 0, G_IM_SIZ_8b |-> 1, G_IM_SIZ_16b |-> 2, G_IM_SIZ_32b |-> 3]

\* the key of the texture cache
TextureKey(tmem_index, address, fmt, siz) ==
    [tmem_index |-> tmem_index, address |-> address, fmt |-> fmt, siz |-> siz]

\* TextureManager::lookup: the entries of the cache under a key
texture_lookup(w, key) == {e \in w.rdp.texture_manager : e.key = key}

\* TextureManager::insert: a new texture under the key, whatever the size of the cache;
\* its identity is its number in insertion order
texture_insert(w, key) ==
    [w EXCEPT !.rdp.texture_manager =
        @ \cup {[key |-> key,
                 texture |-> [Texture_EMPTY EXCEPT !.number = Cardinality(w.rdp.texture_manager) + 1,
                                                   !.key = key]]}]

\* self.rendering_state.textures[tmem_index] = *value, the texture cached under the key
set_texture(w, tmem_index, key) ==
    [w EXCEPT !.rdp.rendering_state.textures[tmem_index + 1] =
        (CHOOSE e \in texture_lookup(w, key) : TRUE).texture]

\* RDP::lookup_texture: the world after it; it returns whether the key was in the cache
lookup_texture(w, tmem_index, fmt, siz) ==
    IF texture_lookup(w, TextureKey(tmem_index, w.rdp.texture_image_state.address, fmt, siz)) # {}
    THEN set_texture(w, tmem_index,
                     TextureKey(tmem_index, w.rdp.texture_image_state.address, fmt, siz))
    ELSE set_texture(
             texture_insert(w, TextureKey(tmem_index, w.rdp.texture_image_state.address,
                                          fmt, siz)),
             tmem_index,
             TextureKey(tmem_index, w.rdp.texture_image_state.address, fmt, siz))

\* the match on (format << 4) | size: the decoder of a format and size
translate_tile(format, size) ==
    CASE format = ImageFormat.G_IM_FMT_RGBA /\ size = ImageSize.G_IM_SIZ_16b -> "translate_tile_rgba16"
      [] format = ImageFormat.G_IM_FMT_RGBA /\ size = ImageSize.G_IM_SIZ_32b -> "translate_tile_rgba32"
      [] format = ImageFormat.G_IM_FMT_IA /\ size = ImageSize.G_IM_SIZ_4b -> "translate_tile_ia4"
      [] format = ImageFormat.G_IM_FMT_IA /\ size = ImageSize.G_IM_SIZ_8b -> "translate_tile_ia8"
      [] format = ImageFormat.G_IM_FMT_IA /\ size = ImageSize.G_IM_SIZ_16b -> "translate_tile_ia16"
      [] format = ImageFormat.G_IM_FMT_I /\ size = ImageSize.G_IM_SIZ_4b -> "translate_tile_i4"
      [] format = ImageFormat.G_IM_FMT_I /\ size = ImageSize.G_IM_SIZ_8b -> "translate_tile_i8"
      [] format = ImageFormat.G_IM_FMT_CI /\ size = ImageSize.G_IM_SIZ_4b -> "translate_tile_ci4"
      [] format = ImageFormat.G_IM_FMT_CI /\ size = ImageSize.G_IM_SIZ_8b -> "translate_tile_ci8"
      [] OTHER -> "panic"

\* the fields of other_mode_h that flush_textures and import_tile_texture read
G_MDSFT_TEXTFILT == 12
G_MDSFT_TEXTLUT == 14
G_MDSFT_TEXTLOD == 16
G_MDSFT_CYCLETYPE == 20

G_CYC_2CYCLE == 1

\* tmem_map.get(&key).unwrap() succeeds
tmem_mapped(w, key) == \E e \in w.rdp.tmem_map : e.tile_number = key

\* the palette read at the TMEM entry of the slot itself
palette_same_slot(w, tmem_index, size) ==
    backend_call(w, "translate_tlut",
        <<(CHOOSE e \in w.rdp.tmem_map : e.tile_number = tmem_index).address,
          size, Field(w.rdp.other_mode_h, G_MDSFT_TEXTLUT, 2)>>)

\* the palette of a CI tile: translate_tlut on the address of the complementary TMEM
\* entry, u16::MAX - tmem_index, in the mode of bits 14-15 of other_mode_h
palette(w, tmem_index, size) ==
    backend_call(w, "translate_tlut",
        <<(CHOOSE e \in w.rdp.tmem_map : e.tile_number = 65535 - tmem_index).address,
          size, Field(w.rdp.other_mode_h, G_MDSFT_TEXTLUT, 2)>>)

\* import_tile_texture after a lookup that missed: the TMEM entry, the decoder (with
\* its palette for the CI formats), then upload_texture
decode_and_upload(w, tmem_index, tile) ==
    IF \/ ~tmem_mapped(w, tmem_index)
       \/ translate_tile(tile.format, tile.size) = "panic"
       \/ /\ tile.format = ImageFormat.G_IM_FMT_CI
          /\ ~tmem_mapped(w, 65535 - tmem_index)
    THEN [w EXCEPT !.panic = TRUE]
    ELSE backend_call(
             backend_call(IF tile.format = ImageFormat.G_IM_FMT_CI
                          THEN palette(w, tmem_index, tile.size)
                          ELSE w,
                          translate_tile(tile.format, tile.size), <<tile.format, tile.size>>),
             "upload_texture", <<tile.format, tile.size>>)

\* import_tile_texture with every lookup taken as a miss
import_tile_no_cache(w, tmem_index, tile) ==
    decode_and_upload(lookup_texture(w, tmem_index, tile.format, tile.size), tmem_index, tile)

\* import_tile_texture for the tile descriptor it has read
import_tile(w, tmem_index, tile) ==
    IF texture_lookup(w, TextureKey(tmem_index, w.rdp.texture_image_state.address,
                                    tile.format, tile.size)) # {}
    THEN lookup_texture(w, tmem_index, tile.format, tile.size)
    ELSE decode_and_upload(lookup_texture(w, tmem_index, tile.format, tile.size),
                           tmem_index, tile)

\* RDP::import_tile_texture
import_tile_texture(w, tmem_index) ==
    import_tile(w, tmem_index, w.rdp.tile_descriptors[w.rdp.texture_state.tile])

(* Textures: flush_textures, which imports the changed slots and sets their samplers *)

\* the texture filters
TextFilt == [G_TF_POINT |-> 0, G_TF_BILERP |-> 2, G_TF_AVERAGE |-> 3]

\* a second texture in use in every cycle type
uses_texture1_any_cycle(w) ==
    \E i \in 1 .. 4 : \/ w.rdp.combine.c0[i] = CCMUX.TEXEL1
                       \/ w.rdp.combine.a0[i] = ACMUX.TEXEL1

\* RDP::uses_texture1: two-cycle mode and a combine expression that reads texel 1
uses_texture1(w) ==
    /\ Field(w.rdp.other_mode_h, G_MDSFT_CYCLETYPE, 2) = G_CYC_2CYCLE
    /\ \E i \in 1 .. 4 : \/ w.rdp.combine.c0[i] = CCMUX.TEXEL1
                         \/ w.rdp.combine.a0[i] = ACMUX.TEXEL1

\* a changed slot imported on top of the pending batch
import_of_slot_no_flush(w, i) ==
    IF w.rdp.textures_changed[i + 1]
    THEN IF import_tile_texture(w, i).panic
         THEN import_tile_texture(w, i)
         ELSE [import_tile_texture(w, i) EXCEPT !.rdp.textures_changed[i + 1] = FALSE]
    ELSE w

\* flush_textures, slot i, a changed slot: flush, import, clear the flag
import_of_slot(w, i) ==
    IF w.rdp.textures_changed[i + 1]
    THEN IF import_tile_texture(flush(w), i).panic
         THEN import_tile_texture(flush(w), i)
         ELSE [import_tile_texture(flush(w), i) EXCEPT !.rdp.textures_changed[i + 1] = FALSE]
    ELSE w

\* flush_textures, slot i: the sampler parameters are set when they differ from those
\* of the slot's texture
set_sampler(w, i, tile_descriptor, linear_filter) ==
    IF \/ linear_filter # w.rdp.rendering_state.textures[i + 1].linear_filter
       \/ tile_descriptor.cm_s # w.rdp.rendering_state.textures[i + 1].cms
       \/ tile_descriptor.cm_t # w.rdp.rendering_state.textures[i + 1].cmt
    THEN [backend_call(w, "set_sampler_parameters",
                       <<i, linear_filter, tile_descriptor.cm_s, tile_descriptor.cm_t>>)
            EXCEPT !.rdp.rendering_state.textures[i + 1].linear_filter = linear_filter,
                   !.rdp.rendering_state.textures[i + 1].cms = tile_descriptor.cm_s,
                   !.rdp.rendering_state.textures[i + 1].cmt = tile_descriptor.cm_t]
    ELSE w

\* flush_textures, slot i after its import: the tile descriptor at texture_state.tile
\* + i (an index outside the array panics) and the filter of other_mode_h (a value that
\* is no filter panics)
sampler_of_slot(w, i) ==
    IF w.panic
    THEN w
    ELSE IF \/ w.rdp.texture_state.tile + i \notin DOMAIN w.rdp.tile_descriptors
            \/ Field(w.rdp.other_mode_h, G_MDSFT_TEXTFILT, 2)
                 \notin {TextFilt.G_TF_POINT, TextFilt.G_TF_AVERAGE, TextFilt.G_TF_BILERP}
    THEN [w EXCEPT !.panic = TRUE]
    ELSE set_sampler(w, i, w.rdp.tile_descriptors[w.rdp.texture_state.tile + i],
                     Field(w.rdp.other_mode_h, G_MDSFT_TEXTFILT, 2) # TextFilt.G_TF_POINT)

\* flush_textures, one iteration of `for i in 0..2`
flush_textures_slot(w, i) ==
    IF w.panic
    THEN w
    ELSE IF i = 0 \/ uses_texture1(w)
    THEN sampler_of_slot(import_of_slot(w, i), i)
    ELSE w

\* RDP::flush_textures: with the LOD bit set the assert fails
flush_textures(w) ==
    IF Field(w.rdp.other_mode_h, G_MDSFT_TEXTLOD, 1) # 0
    THEN [w EXCEPT !.panic = TRUE]
    ELSE flush_textures_slot(flush_textures_slot(w, 0), 1)

(* Render-mode translation *)

\* translate_blend_param_b without the case of a source factor of One
translate_blend_param_b_no_one(param, src) ==
    CASE param = G_BL_1MA -> IF src = "SrcAlpha" THEN "OneMinusSrcAlpha" ELSE "One"
      [] param = G_BL_A_MEM -> "DstAlpha"
      [] param = G_BL_1 -> "One"
      [] param = G_BL_0 -> "Zero"

\* RDP::translate_blend_param_b
translate_blend_param_b(param, src) ==
    CASE param = G_BL_1MA ->
            IF src = "SrcAlpha" THEN "OneMinusSrcAlpha"
            ELSE IF src = "One" THEN "Zero" ELSE "One"
      [] param = G_BL_A_MEM -> "DstAlpha"
      [] param = G_BL_1 -> "One"
      [] param = G_BL_0 -> "Zero"

\* the depth compare function with the decal zmode treated like the others
depth_compare_of_all_less(zmode) == "Less"

\* translate_blend_mode: the depth compare function of a zmode
depth_compare_of(zmode) ==
    CASE zmode = ZMODE_OPA -> "Less"
      [] zmode = ZMODE_INTER -> "Less"
      [] zmode = ZMODE_XLU -> "Less"
      [] zmode = ZMODE_DEC -> "LessEqual"

\* the pattern with the backend setter called ahead of the flush
set_state_then_flush(w, fn, field, value) ==
    IF value # w.rdp.rendering_state[field]
    THEN [flush(backend_set(w, fn, field, value)) EXCEPT !.rdp.rendering_state[field] = value]
    ELSE w

\* the pattern of every piece of render state: when the required value differs from
\* the snapshot, flush, call the backend setter, then store the value in the snapshot
set_state(w, fn, field, value) ==
    IF value # w.rdp.rendering_state[field]
    THEN [backend_set(flush(w), fn, field, value) EXCEPT !.rdp.rendering_state[field] = value]
    ELSE w

\* translate_blend_mode: "handle depth compare"
apply_depth_compare(w) ==
    IF Field(w.rdp.other_mode_l, Z_CMP, 1) # 0
    THEN set_state(w, "set_depth_compare", "depth_compare",
                   depth_compare_of(Field(w.rdp.other_mode_l, ZMODE, 2)))
    ELSE w

\* translate_blend_mode: "handle depth write"
apply_depth_write(w, render_mode) ==
    set_state(w, "set_depth_write", "depth_write", Field(render_mode, Z_UPD, 1) # 0)

\* translate_blend_mode: "handle polygon offset"
apply_polygon_offset(w) ==
    set_state(w, "set_polygon_offset", "polygon_offset",
              Field(w.rdp.other_mode_l, ZMODE, 2) = ZMODE_DEC)

\* do_blend decided by FORCE_BL alone
do_blend_force_only(render_mode) == Field(render_mode, FORCE_BL, 1) # 0

\* translate_blend_mode: whether the render mode blends with the framebuffer
do_blend(render_mode) ==
    /\ Field(render_mode, FORCE_BL, 1) # 0
    /\ Field(render_mode, M_2, 2) = G_BL_CLR_MEM

\* the source factor with the coverage case taken whenever ALPHA_CVG_SEL is set
blend_src_factor_any_cvg(render_mode) ==
    IF Field(render_mode, A_2, 2) = G_BL_0
    THEN "Zero"
    ELSE IF Field(render_mode, ALPHA_CVG_SEL, 1) # 0 THEN "One" ELSE "SrcAlpha"

\* translate_blend_mode: the source factor of a blending render mode
blend_src_factor(render_mode) ==
    IF Field(render_mode, A_2, 2) = G_BL_0
    THEN "Zero"
    ELSE IF Field(render_mode, ALPHA_CVG_SEL, 1) # 0 /\ Field(render_mode, CVG_X_ALPHA, 1) = 0
         THEN "One"
         ELSE "SrcAlpha"

\* translate_blend_mode: the blend state returned
blend_state_of(render_mode) ==
    IF do_blend(render_mode)
    THEN BlendState(BlendComponent(blend_src_factor(render_mode),
            translate_blend_param_b(Field(render_mode, B_2, 2), blend_src_factor(render_mode))))
    ELSE BlendState(BlendComponent("One", "Zero"))

\* translate_blend_mode: assert!(src_color == G_BL_CLR_IN) of a blending render mode
assert_src_color(w, render_mode) ==
    IF do_blend(render_mode) /\ Field(render_mode, P_2, 2) # G_BL_CLR_IN
    THEN [w EXCEPT !.panic = TRUE]
    ELSE w

\* RDP::translate_blend_mode: the world after it, and the blend state it returns
translate_blend_mode(w, render_mode) ==
    [w |-> assert_src_color(
              apply_polygon_offset(apply_depth_write(apply_depth_compare(w), render_mode)),
              render_mode),
     blend_state |-> blend_state_of(render_mode)]

\* update_render_state: the depth test of the geometry mode
apply_depth_test(w, geometry_mode) ==
    set_state(w, "set_depth_test", "depth_test",
              (geometry_mode % (2 * G_ZBUFFER)) \div G_ZBUFFER # 0)

\* update_render_state: the blend state
apply_blend_state(w, blend_state) ==
    set_state(w, "set_blend_state", "blend_state", blend_state)

\* update_render_state: the viewport, when viewport_or_scissor_changed
apply_viewport(w) == set_state(w, "set_viewport", "viewport", w.rdp.viewport)

\* update_render_state: the scissor, when viewport_or_scissor_changed
apply_scissor(w) == set_state(w, "set_scissor", "scissor", w.rdp.scissor)

\* the viewport and scissor compared with the snapshot whatever the flag says
apply_viewport_and_scissor_unflagged(w) ==
    [apply_scissor(apply_viewport(w)) EXCEPT !.rdp.viewport_or_scissor_changed = FALSE]

\* update_render_state: the viewport_or_scissor_changed block
apply_viewport_and_scissor(w) ==
    IF w.rdp.viewport_or_scissor_changed
    THEN [apply_scissor(apply_viewport(w)) EXCEPT !.rdp.viewport_or_scissor_changed = FALSE]
    ELSE w

\* update_render_state after translate_blend_mode has returned t
apply_translated(t) ==
    IF t.w.panic
    THEN t.w
    ELSE apply_viewport_and_scissor(apply_blend_state(t.w, t.blend_state))

\* RDP::update_render_state
update_render_state(w, geometry_mode) ==
    apply_translated(translate_blend_mode(apply_depth_test(w, geometry_mode), w.rdp.other_mode_l))

\* RDP::calculate_and_set_viewport; `as u16` saturates at both ends
as_u16(v) == IF v < 0 THEN 0 ELSE IF v > 65535 THEN 65535 ELSE v

\* width = 2 * vscale / 4 and x = vtrans / 4 - width / 2 are scaled by
\* output_dimensions / SCREEN and only then cut to u16, so the division comes last
calculate_and_set_viewport(w, viewport) ==
    LET out == w.rdp.output_dimensions
        trunc(num, den) == IF num < 0 THEN 0 ELSE num \div den
        width == trunc(viewport.vscale[1] * out.width, 2 * SCREEN_WIDTH)
        height == trunc(viewport.vscale[2] * out.height, 2 * SCREEN_HEIGHT)
        x == trunc((viewport.vtrans[1] - viewport.vscale[1]) * out.width, 4 * SCREEN_WIDTH)
        y == trunc((viewport.vtrans[2] - viewport.vscale[2]) * out.height, 4 * SCREEN_HEIGHT)
    IN  [w EXCEPT !.rdp.viewport = Rect(as_u16(x), as_u16(y), as_u16(width), as_u16(height)),
                  !.rdp.viewport_or_scissor_changed = TRUE]

\* RDPAddToVBOAndIncrement: buf_vbo[buf_vbo_len] = value is bounds-checked
add_to_vbo_and_increment(w) ==
    IF w.panic THEN w
    ELSE IF w.rdp.buf_vbo_len >= VBO_FLOATS
         THEN [w EXCEPT !.panic = TRUE]
         ELSE [w EXCEPT !.rdp.buf_vbo_len = @ + 1]

\* RDPIncrementTriangleCountAndReturn
increment_triangle_count(w) ==
    IF w.panic THEN w ELSE [w EXCEPT !.rdp.buf_vbo_num_tris = @ + 1]

\* n calls of RDPAddToVBOAndIncrement in a row
add_floats(w, n) ==
    IF w.panic THEN w
    ELSE IF w.rdp.buf_vbo_len + n > VBO_FLOATS
         THEN [w EXCEPT !.panic = TRUE, !.rdp.buf_vbo_len = VBO_FLOATS]
         ELSE [w EXCEPT !.rdp.buf_vbo_len = @ + n]

-----------------------------------------------------------------------------
(* The handlers that reach the RDP, and the dispatcher *)

\* set combine: the command's combine expression becomes rdp.combine
gdp_set_combine(w, command) ==
    [w |-> [w EXCEPT !.rdp.combine = command.w1], res |-> Continue]

\* move memory (viewport): the command's viewport goes through calculate_and_set_viewport
gsp_movemem(w, command) ==
    [w |-> calculate_and_set_viewport(w, command.w1), res |-> Continue]

\* a triangle: the render state is brought up to date, the triangle's floats are
\* appended, and a batch that has reached MAX_VBO_SIZE triangles is flushed
flush_if_full(w) ==
    IF ~w.panic /\ w.rdp.buf_vbo_num_tris = MAX_VBO_SIZE THEN flush(w) ELSE w

gsp_tri1(w, command) ==
    [w |-> flush_if_full(increment_triangle_count(
               add_floats(update_render_state(w, w.rsp.geometry_mode), VTX_FLOATS * TRI_VTXS))),
     res |-> Continue]

call_handler(name, w, command) ==
    CASE name = "gsp_noop" -> gsp_noop(w, command)
      [] name = "gsp_display_list" -> gsp_display_list(w, command)
      [] name = "gsp_end_display_list" -> gsp_end_display_list(w, command)
      [] name = "gdp_set_combine" -> gdp_set_combine(w, command)
      [] name = "gsp_movemem" -> gsp_movemem(w, command)
      [] name = "gsp_tri1" -> gsp_tri1(w, command)

\* GBI::handle_command: look the opcode up, call its handler, panic when there is none
handle_command(table, w, command) ==
    LET opcode == Field(command.w0, 24, 8)
    IN  IF opcode \in DOMAIN table
        THEN call_handler(table[opcode], w, command) @@ [panic |-> FALSE]
        ELSE [panic |-> TRUE, w |-> w, res |-> Unknown(opcode)]

-----------------------------------------------------------------------------
(* RCP *)

CtlCommands ==
    {Cmd(G_NOOP, NoArg), Cmd(G_SPARE, NoArg), Cmd(G_ENDDL, NoArg)}
        \cup {Cmd(G_DL, [addr |-> t]) : t \in Addr}

NoStep == [kind |-> "None", at |-> 0, depth |-> 0, deepest |-> 0]

Init ==
    /\ mem \in [Addr -> CtlCommands]
    /\ gbi_opcode_table = setup
    /\ status = "idle"
    /\ stack = <<>>
    /\ last = NoStep
    /\ runs = 0
    /\ rdp = RDP_new
    /\ rsp = RSP_new
    /\ gfx = GFX_new
    /\ calls = <<>>
    /\ op = "new"

\* RCP::reset
reset(w) == [w EXCEPT !.rdp = RDP_reset(w.rdp)]

\* RCP::run up to the first iteration of run_dl: reset, then the cursor at `commands`
run(commands) ==
    /\ status \in {"idle", "done"}
    /\ runs < MaxRuns
    /\ rdp' = reset(World).rdp
    /\ rsp' = reset(World).rsp
    /\ gfx' = gfx
    /\ calls' = <<>>
    /\ status' = "running"
    /\ stack' = <<commands>>
    /\ last' = NoStep
    /\ runs' = runs + 1
    /\ op' = "run"
    /\ UNCHANGED <<mem, gbi_opcode_table>>

\* a cursor that skips a command
advance_two(frames, i) == [frames EXCEPT ![i] = @ + 2]

\* command = command.add(1) on the cursor of level i
advance(frames, i) == [frames EXCEPT ![i] = @ + 1]

\* run_dl with the call arm turned into a jump: the caller's cursor is overwritten
run_dl_frames_jump(frames, res) ==
    LET n == Len(frames)
    IN  CASE res.kind = "Recurse" -> [frames EXCEPT ![n] = res.target]
          [] res.kind = "Return" ->
                IF n = 1 THEN frames ELSE advance(SubSeq(frames, 1, n - 1), n - 1)
          [] OTHER -> advance(frames, n)

\* what became of the frames after one iteration of run_dl's loop at the innermost frame
run_dl_frames(frames, res) ==
    LET n == Len(frames)
    IN  CASE res.kind = "Recurse" -> Append(frames, res.target)
          [] res.kind = "Return" ->
                IF n = 1 THEN frames ELSE advance(SubSeq(frames, 1, n - 1), n - 1)
          [] OTHER -> advance(frames, n)

\* run_dl with a Return arm that does not leave the loop
run_dl_status_no_return(frames, res) ==
    CASE res.kind = "Recurse" /\ Len(frames) = MaxDepth -> "overflow"
      [] OTHER -> "running"

run_dl_status(frames, res) ==
    CASE res.kind = "Recurse" /\ Len(frames) = MaxDepth -> "overflow"
      [] res.kind = "Return" /\ Len(frames) = 1 -> "done"
      [] OTHER -> "running"

\* one iteration of RCP::run_dl's loop, handle_command having returned r
run_dl_match(r) ==
    /\ op' = "run_dl"
    /\ last' = [kind |-> IF r.panic \/ r.w.panic THEN "Panic" ELSE r.res.kind,
                at |-> stack[Len(stack)], depth |-> Len(stack),
                deepest |-> IF last.deepest > Len(stack) THEN last.deepest ELSE Len(stack)]
    /\ rdp' = r.w.rdp
    /\ rsp' = r.w.rsp
    /\ gfx' = r.w.gfx
    /\ calls' = r.w.calls
    /\ IF r.panic \/ r.w.panic
       THEN status' = "panic" /\ stack' = stack
       ELSE /\ status' = run_dl_status(stack, r.res)
            /\ stack' = IF run_dl_status(stack, r.res) = "overflow" THEN stack
                        ELSE run_dl_frames(stack, r.res)
    /\ UNCHANGED <<mem, gbi_opcode_table, runs>>

\* one iteration of RCP::run_dl's loop on the command under the innermost cursor
run_dl_step(command) ==
    run_dl_match(handle_command(gbi_opcode_table, [World EXCEPT !.calls = calls], command))

\* the cursor is inside the buffer: the command is read from it
run_dl ==
    /\ status = "running"
    /\ stack[Len(stack)] \in DOMAIN mem
    /\ run_dl_step(mem[stack[Len(stack)]])

\* the cursor has left the buffer: the raw read yields whatever lies there, or faults
run_dl_stray ==
    /\ status = "running"
    /\ stack[Len(stack)] \notin DOMAIN mem
    /\ \/ /\ stack[Len(stack)] < Cardinality(DOMAIN mem) + MaxOverrun
          /\ \E command \in CtlCommands : run_dl_step(command)
       \/ /\ status' = "fault"
          /\ op' = "run_dl"
          /\ last' = [last EXCEPT !.kind = "Fault", !.at = stack[Len(stack)],
                                   !.depth = Len(stack)]
          /\ calls' = <<>>
          /\ UNCHANGED <<mem, gbi_opcode_table, stack, runs, rdp, rsp, gfx>>

Next ==
    \/ run(0)
    \/ run_dl
    \/ run_dl_stray

Spec == Init /\ [][Next]_vars

-----------------------------------------------------------------------------
(* Frames: display lists of state changes and triangles *)

CombineA == [c0 |-> <<1, 0, 4, 0>>, a0 |-> <<0, 0, 0, 4>>]

\* the Viewport (vscale, vtrans) of SetViewport(0, 0, 320, 240)
Viewport_320_240 == [vscale |-> <<640, 480>>, vtrans |-> <<640, 480>>]

Output_320_240 == [width |-> 320, height |-> 240]

FrameCommands ==
    {Cmd(G_SETCOMBINE, CombineA), Cmd(G_TRI1, [v |-> <<0, 1, 2>>]), Cmd(G_TRI1, [v |-> <<3, 4, 5>>]),
     Cmd(G_MOVEMEM, Viewport_320_240), Cmd(G_ENDDL, NoArg)}

E2EList ==
    [a \in 0 .. 4 |->
        CASE a = 0 -> Cmd(G_SETCOMBINE, CombineA)
          [] a = 1 -> Cmd(G_TRI1, [v |-> <<0, 1, 2>>])
          [] a = 2 -> Cmd(G_MOVEMEM, Viewport_320_240)
          [] a = 3 -> Cmd(G_TRI1, [v |-> <<3, 4, 5>>])
          [] a = 4 -> Cmd(G_ENDDL, NoArg)]

InitFrame ==
    /\ mem \in {m \in [0 .. (FrameSize - 1) -> FrameCommands] :
                    m[FrameSize - 1] = Cmd(G_ENDDL, NoArg)}
    /\ gbi_opcode_table = setup
    /\ status = "idle"
    /\ stack = <<>>
    /\ last = NoStep
    /\ runs = 0
    /\ rdp \in {[RDP_new EXCEPT !.output_dimensions = d] :
                    d \in {OutputDimensions_ZERO, Output_320_240}}
    /\ rsp = RSP_new
    /\ gfx = GFX_new
    /\ calls = <<>>
    /\ op = "new"

NextFrame ==
    \/ run(0)
    \/ run_dl

SpecFrame == InitFrame /\ [][NextFrame]_vars

-----------------------------------------------------------------------------
(* The host bridge: the extern "C" functions, called in any order *)

host(name, w) ==
    /\ status = "idle"
    /\ op' = name
    /\ rdp' = w.rdp
    /\ rsp' = w.rsp
    /\ gfx' = w.gfx
    /\ calls' = w.calls
    /\ status' = IF w.panic THEN "panic" ELSE "idle"
    /\ UNCHANGED <<mem, gbi_opcode_table, stack, last, runs>>

\* a bridge function that only stores a value
host_set(w) == host("set", w)

OtherModeLs ==
    {U32(0, 0),
     U32(0, Pow2(Z_CMP) + Pow2(Z_UPD) + ZMODE_DEC * Pow2(ZMODE)),
     U32(G_BL_CLR_MEM * Pow2(M_2 - 16), Pow2(FORCE_BL) + Pow2(Z_CMP))}

Rects == {Rect_ZERO, Rect(0, 0, 320, 240)}

RDPSetViewportOrScissorChanged ==
    \E value \in BOOLEAN : host_set([World EXCEPT !.rdp.viewport_or_scissor_changed = value])

RDPSetViewport ==
    \E viewport \in Rects : host_set([World EXCEPT !.rdp.viewport = viewport])

\* the host writes the scissor through the pointer RDPGetScissorPtr hands out
RDPGetScissorPtr ==
    \E scissor \in Rects : host_set([World EXCEPT !.rdp.scissor = scissor])

RDPFlush == host("RDPFlush", flush(World))

RDPAddToVBOAndIncrement == host("RDPAddToVBOAndIncrement", add_to_vbo_and_increment(World))

RDPIncrementTriangleCountAndReturn ==
    host("RDPIncrementTriangleCountAndReturn", increment_triangle_count(World))

RDPSetRenderingStateViewport ==
    \E viewport \in Rects :
        host_set([World EXCEPT !.rdp.rendering_state.viewport = viewport])

RDPSetRenderingStateScissor ==
    \E scissor \in Rects :
        host_set([World EXCEPT !.rdp.rendering_state.scissor = scissor])

RDPSetOtherModeL ==
    \E value \in OtherModeLs : host_set([World EXCEPT !.rdp.other_mode_l = value])

\* the geometry mode handlers of the RSP set rsp.geometry_mode
gsp_geometry_mode ==
    \E value \in {0, G_ZBUFFER} : host_set([World EXCEPT !.rsp.geometry_mode = value])

\* RDPUpdateRenderState on three vertices of the staging table
RDPUpdateRenderState ==
    host("RDPUpdateRenderState", update_render_state(World, rsp.geometry_mode))

\* the host appends one triangle: its floats, then the triangle count
bridge_triangle ==
    host("host_add_triangle", increment_triangle_count(add_floats(World, VTX_FLOATS * TRI_VTXS)))

\* the same with a few triangles pending at most
host_add_triangle ==
    /\ rdp.buf_vbo_num_tris < MaxPending
    /\ bridge_triangle

InitRDP ==
    /\ mem = [a \in Addr |-> Cmd(G_ENDDL, NoArg)]
    /\ gbi_opcode_table = setup
    /\ status = "idle"
    /\ stack = <<>>
    /\ last = NoStep
    /\ runs = 0
    /\ rdp = RDP_new
    /\ rsp = RSP_new
    /\ gfx = GFX_new
    /\ calls = <<>>
    /\ op = "new"

\* render state: the mode registers, the geometry mode, viewport and scissor, triangles
NextRDP ==
    \/ RDPSetViewportOrScissorChanged
    \/ RDPSetViewport
    \/ RDPGetScissorPtr
    \/ RDPSetOtherModeL
    \/ gsp_geometry_mode
    \/ RDPUpdateRenderState
    \/ RDPFlush
    \/ host_add_triangle

SpecRDP == InitRDP /\ [][NextRDP]_vars

\* the snapshot's own setters beside the viewport and scissor path
NextBridge ==
    \/ RDPSetViewportOrScissorChanged
    \/ RDPSetViewport
    \/ RDPGetScissorPtr
    \/ RDPSetRenderingStateViewport
    \/ RDPSetRenderingStateScissor
    \/ RDPUpdateRenderState
    \/ RDPFlush
    \/ host_add_triangle

SpecBridge == InitRDP /\ [][NextBridge]_vars

\* the batch buffer alone: appends, counts and flushes
NextVBO ==
    \/ /\ rdp.buf_vbo_len % (VTX_FLOATS * TRI_VTXS) < MaxLoose
       /\ RDPAddToVBOAndIncrement
    \/ /\ rdp.buf_vbo_num_tris <= MAX_VBO_SIZE
       /\ rdp.buf_vbo_num_tris * (VTX_FLOATS * TRI_VTXS)
            < rdp.buf_vbo_len + MaxLoose * (VTX_FLOATS * TRI_VTXS)
       /\ RDPIncrementTriangleCountAndReturn
    \/ RDPFlush
    \/ bridge_triangle
    \/ host("gsp_tri1", gsp_tri1(World, Cmd(G_TRI1, [v |-> <<0, 1, 2>>])).w)

SpecVBO == InitRDP /\ [][NextVBO]_vars

-----------------------------------------------------------------------------
(* Render modes: update_render_state on every value of the mode fields it reads *)

\* other_mode_l words over the depth fields: Z_CMP, Z_UPD and the zmode
ZWords ==
    {U32(0, zc * Pow2(Z_CMP) + zu * Pow2(Z_UPD) + zm * Pow2(ZMODE)) :
        zc \in 0 .. 1, zu \in 0 .. 1, zm \in {ZMODE_OPA, ZMODE_INTER, ZMODE_XLU, ZMODE_DEC}}

\* the low half of the blend words: FORCE_BL, ALPHA_CVG_SEL and CVG_X_ALPHA
BlendLows ==
    {fb * Pow2(FORCE_BL) + acs * Pow2(ALPHA_CVG_SEL) + cxa * Pow2(CVG_X_ALPHA) :
        fb \in 0 .. 1, acs \in 0 .. 1, cxa \in 0 .. 1}

\* the high half of the blend words: the second-cycle selectors P_2, A_2, M_2, B_2
BlendHighs ==
    {p * Pow2(P_2 - 16) + a * Pow2(A_2 - 16) + m * Pow2(M_2 - 16) + b * Pow2(B_2 - 16) :
        p \in {G_BL_CLR_IN, G_BL_CLR_MEM}, a \in 0 .. 3, m \in 0 .. 3, b \in 0 .. 3}

BlendWords == {U32(hi, lo) : hi \in BlendHighs, lo \in BlendLows}

\* the render modes applied before the one under test: none, and a blending decal mode
PriorWords ==
    {U32(0, 0),
     U32(G_BL_CLR_MEM * Pow2(M_2 - 16),
         Pow2(FORCE_BL) + Pow2(Z_CMP) + Pow2(Z_UPD) + ZMODE_DEC * Pow2(ZMODE))}

\* the world of a freshly created RCP
World_new == [rdp |-> RDP_new, rsp |-> RSP_new, gfx |-> GFX_new, calls |-> <<>>, panic |-> FALSE]

\* a fresh RCP after RDPSetOtherModeL(prior), RDPUpdateRenderState, RDPSetOtherModeL(word)
after_prior(prior, word) ==
    [update_render_state([World_new EXCEPT !.rdp.other_mode_l = prior], RSP_new.geometry_mode)
        EXCEPT !.rdp.other_mode_l = word]

InitMode ==
    /\ mem = [a \in Addr |-> Cmd(G_ENDDL, NoArg)]
    /\ gbi_opcode_table = setup
    /\ status = "idle"
    /\ stack = <<>>
    /\ last = NoStep
    /\ runs = 0
    /\ \E prior \in PriorWords, word \in ZWords \cup BlendWords :
        /\ rdp = after_prior(prior, word).rdp
        /\ gfx = after_prior(prior, word).gfx
    /\ rsp = RSP_new
    /\ calls = <<>>
    /\ op = "new"

NextMode ==
    \/ gsp_geometry_mode
    \/ RDPUpdateRenderState
    \/ host_add_triangle

SpecMode == InitMode /\ [][NextMode]_vars

-----------------------------------------------------------------------------
(* Combiners: lookups of combine ids under changing combine expressions *)

\* shade and primitive around a texel, with repeated operands
CombineB ==
    [c0 |-> <<CCMUX.SHADE, CCMUX.TEXEL0, CCMUX.PRIMITIVE, CCMUX.SHADE>>,
     a0 |-> <<ACMUX.ENVIRONMENT, ACMUX.ENVIRONMENT, ACMUX.TEXEL1, ACMUX.PRIMITIVE>>]

\* the same shape as CombineB over other operands
CombineC ==
    [c0 |-> <<CCMUX.ENVIRONMENT, CCMUX.TEXEL0, CCMUX.LOD_FRACTION, CCMUX.ENVIRONMENT>>,
     a0 |-> <<ACMUX.SHADE, ACMUX.SHADE, ACMUX.TEXEL1, ACMUX.ENVIRONMENT>>]

\* the alpha of texel 0, a second texel, and operands without a shader source
CombineD ==
    [c0 |-> <<CCMUX.TEXEL0_ALPHA, CCMUX.PRIMITIVE, CCMUX.TEXEL1, CCMUX.LOD_FRACTION>>,
     a0 |-> <<ACMUX.TEXEL0, ACMUX.COMBINED, ACMUX.SHADE, ACMUX.ZERO>>]

Combines == {CombineB, CombineC, CombineD}

\* the combine id the host computes for an expression: three bits an operand, the
\* colour pass from bit 0, the alpha pass from bit 12, the options from bit 24
cc_id_of(combine, options) ==
    Pow2(24) * options + shifted(combine.c0, 0) + shifted(combine.a0, 12)

CcIds == {cc_id_of(CombineB, 0), cc_id_of(CombineC, 0), cc_id_of(CombineB, 1)}

RDPSetCombine ==
    \E value \in Combines : host_set([World EXCEPT !.rdp.combine = value])

\* the bridge function called with one combine id
lookup_or_create(cc_id) ==
    host("RDPLookupOrCreateColorCombiner", lookup_or_create_color_combiner(World, cc_id))

RDPLookupOrCreateColorCombiner == \E cc_id \in CcIds : lookup_or_create(cc_id)

NextCombiner ==
    \/ RDPSetCombine
    \/ RDPLookupOrCreateColorCombiner
    \/ host_add_triangle

SpecCombiner == InitRDP /\ [][NextCombiner]_vars

-----------------------------------------------------------------------------
(* Texture imports: imports of both texture slots under changing image addresses,
   tile formats and TMEM entries *)

\* textures the cache may hold in the model
MaxTextures == 2

\* image addresses
Addresses == {1, 2}

\* RGBA16 and IA8, which have decoders, and RGBA4, which has none
Formats ==
    {<<ImageFormat.G_IM_FMT_RGBA, ImageSize.G_IM_SIZ_16b>>,
     <<ImageFormat.G_IM_FMT_IA, ImageSize.G_IM_SIZ_8b>>,
     <<ImageFormat.G_IM_FMT_RGBA, ImageSize.G_IM_SIZ_4b>>}

\* set texture image: the address of the image to load
set_texture_image ==
    \E address \in Addresses :
        host_set([World EXCEPT !.rdp.texture_image_state.address = address])

\* set tile: format and size of the current tile descriptor
set_tile ==
    \E f \in Formats :
        host_set([World EXCEPT !.rdp.tile_descriptors[rdp.texture_state.tile] =
                                  [@ EXCEPT !.format = f[1], !.size = f[2]]])

RDPSetTMEMMap ==
    \E tile_number \in {0, 1}, address \in Addresses :
        host_set([World EXCEPT !.rdp.tmem_map =
            {e \in @ : e.tile_number # tile_number}
                \cup {[tile_number |-> tile_number, address |-> address]}])

\* the bridge function called for one texture slot
import(tile) == host("RDPImportTileTexture", import_tile_texture(World, tile))

RDPImportTileTexture ==
    \E tile \in {0, 1} :
        /\ \/ Cardinality(rdp.texture_manager) < MaxTextures
           \/ texture_lookup(World, TextureKey(tile, rdp.texture_image_state.address,
                  rdp.tile_descriptors[rdp.texture_state.tile].format,
                  rdp.tile_descriptors[rdp.texture_state.tile].size)) # {}
        /\ import(tile)

NextTexture ==
    \/ set_texture_image
    \/ set_tile
    \/ RDPSetTMEMMap
    \/ RDPImportTileTexture

SpecTexture == InitRDP /\ [][NextTexture]_vars

-----------------------------------------------------------------------------
(* Texture flushes: flush_textures under changing flags, modes, wrap modes and tiles,
   with triangles pending *)

\* other_mode_h: nothing set, bilinear filter, two-cycle mode, both, the LOD bit
OtherModeHs ==
    {U32(0, 0),
     U32(0, TextFilt.G_TF_BILERP * Pow2(G_MDSFT_TEXTFILT)),
     U32(G_CYC_2CYCLE * Pow2(G_MDSFT_CYCLETYPE - 16), 0),
     U32(G_CYC_2CYCLE * Pow2(G_MDSFT_CYCLETYPE - 16),
         TextFilt.G_TF_BILERP * Pow2(G_MDSFT_TEXTFILT)),
     U32(Pow2(G_MDSFT_TEXTLOD - 16), 0)}

RDPSetOtherModeH ==
    \E value \in OtherModeHs : host_set([World EXCEPT !.rdp.other_mode_h = value])

RDPSetTextureChangedAtIndex ==
    \E index \in {0, 1}, value \in BOOLEAN :
        host_set([World EXCEPT !.rdp.textures_changed[index + 1] = value])

\* set tile: the wrap mode of a tile descriptor
set_tile_wrap ==
    \E index \in {0, 1}, cm_s \in {0, 1} :
        host_set([World EXCEPT !.rdp.tile_descriptors[index].cm_s = cm_s])

\* texture: the tile the textures are taken from, a 3-bit field
gsp_texture ==
    \E tile \in {0, 7} : host_set([World EXCEPT !.rdp.texture_state.tile = tile])

\* the accessor reads tile_descriptors[index] for the u8 the host passes
RDPGetTileDescriptorTMEM ==
    \E index \in {0, 7, 8} :
        host("RDPGetTileDescriptorTMEM",
             [World EXCEPT !.panic = index \notin DOMAIN rdp.tile_descriptors])

RDPFlushTextures == host("RDPFlushTextures", flush_textures(World))

\* a host that has set up both texture slots: RGBA16 tiles, a TMEM entry for each
\* slot, a combine expression that reads texel 1
InitSampler ==
    /\ mem = [a \in Addr |-> Cmd(G_ENDDL, NoArg)]
    /\ gbi_opcode_table = setup
    /\ status = "idle"
    /\ stack = <<>>
    /\ last = NoStep
    /\ runs = 0
    /\ rdp = [RDP_new EXCEPT
                !.tile_descriptors = [index \in 0 .. 7 |->
                    [format |-> ImageFormat.G_IM_FMT_RGBA, size |-> ImageSize.G_IM_SIZ_16b,
                     cm_s |-> 0, cm_t |-> 0]],
                !.tmem_map = {[tile_number |-> 0, address |-> 1],
                              [tile_number |-> 1, address |-> 1]},
                !.combine = CombineD]
    /\ rsp = RSP_new
    /\ gfx = GFX_new
    /\ calls = <<>>
    /\ op = "new"

NextSampler ==
    \/ RDPSetOtherModeH
    \/ RDPSetTextureChangedAtIndex
    \/ set_tile_wrap
    \/ gsp_texture
    \/ RDPGetTileDescriptorTMEM
    \/ RDPFlushTextures
    \/ host_add_triangle

SpecSampler == InitSampler /\ [][NextSampler]_vars

-----------------------------------------------------------------------------
(* Palettes: imports of CI tiles and of a tile without palette, under changing TMEM
   entries and palette entries *)

\* load palette: the palette of a texture slot goes to the complementary TMEM entry
load_tlut ==
    \E index \in {0, 1}, address \in Addresses :
        host_set([World EXCEPT !.rdp.tmem_map =
            {e \in @ : e.tile_number # 65535 - index}
                \cup {[tile_number |-> 65535 - index, address |-> address]}])

\* the tile is CI4, CI8 or IA8; the palette mode is none, RGBA16 or IA16
InitPalette ==
    /\ mem = [a \in Addr |-> Cmd(G_ENDDL, NoArg)]
    /\ gbi_opcode_table = setup
    /\ status = "idle"
    /\ stack = <<>>
    /\ last = NoStep
    /\ runs = 0
    /\ \E f \in {<<ImageFormat.G_IM_FMT_CI, ImageSize.G_IM_SIZ_4b>>,
                  <<ImageFormat.G_IM_FMT_CI, ImageSize.G_IM_SIZ_8b>>,
                  <<ImageFormat.G_IM_FMT_IA, ImageSize.G_IM_SIZ_8b>>},
          tt \in {0, 2, 3} :
            rdp = [RDP_new EXCEPT
                     !.tile_descriptors[0] = [@ EXCEPT !.format = f[1], !.size = f[2]],
                     !.other_mode_h = U32(0, tt * Pow2(G_MDSFT_TEXTLUT))]
    /\ rsp = RSP_new
    /\ gfx = GFX_new
    /\ calls = <<>>
    /\ op = "new"

NextPalette ==
    \/ RDPSetTMEMMap
    \/ load_tlut
    \/ set_texture_image
    \/ RDPImportTileTexture

SpecPalette == InitPalette /\ [][NextPalette]_vars

-----------------------------------------------------------------------------
(* Vertices: RDPUpdateRenderState on any three 8-bit vertex ids *)

\* a read of the vertex staging table with the id folded into the table
vertex_table_wrapped(w, vertex_id) == w

\* &rcp.rsp.vertex_table[vertex_id as usize]: the index is checked against the length
\* of the table and the call panics when it is outside
vertex_table_index(w, vertex_id) ==
    IF vertex_id \in DOMAIN w.rsp.vertex_table THEN w ELSE [w EXCEPT !.panic = TRUE]

\* the body of the bridge function: the three vertices are read, then the render state
\* is updated
update_render_state_of_vertices(w, vertex_id1, vertex_id2, vertex_id3) ==
    IF vertex_table_index(vertex_table_index(vertex_table_index(w, vertex_id1),
                                             vertex_id2), vertex_id3).panic
    THEN [w EXCEPT !.panic = TRUE]
    ELSE update_render_state(w, w.rsp.geometry_mode)

update_render_state_of(vertex_id1, vertex_id2, vertex_id3) ==
    host("RDPUpdateRenderState",
         update_render_state_of_vertices(World, vertex_id1, vertex_id2, vertex_id3))

\* ids inside the table, the first id outside it and the largest u8
VertexIds == {0, VERTEX_TABLE_LEN - 1, VERTEX_TABLE_LEN, 255}

RDPUpdateRenderStateOfAny ==
    \E vertex_id1, vertex_id2, vertex_id3 \in VertexIds :
        update_render_state_of(vertex_id1, vertex_id2, vertex_id3)

NextVertex ==
    \/ RDPSetOtherModeL
    \/ gsp_geometry_mode
    \/ RDPSetViewport
    \/ RDPUpdateRenderStateOfAny
    \/ host_add_triangle

SpecVertex == InitRDP /\ [][NextVertex]_vars

-----------------------------------------------------------------------------
(* The opcode table: register and handle_command in any order, from GBI::new *)

\* an insert that leaves an opcode that has a handler alone
insert_vacant(table, opcode, cmd) ==
    [o \in DOMAIN table \cup {opcode} |-> IF o \in DOMAIN table THEN table[o] ELSE cmd]

\* HashMap::insert: the opcode's handler is replaced, the other entries stay
insert(table, opcode, cmd) ==
    [o \in DOMAIN table \cup {opcode} |-> IF o = opcode THEN cmd ELSE table[o]]

\* the log of the calls made on the GBI
gbi_call(fn, arg) == Append(calls, [fn |-> fn, arg |-> arg, pending |-> 0])

\* GBI::register
register(opcode, cmd) ==
    /\ status = "idle"
    /\ Len(calls) < MaxCalls
    /\ gbi_opcode_table' = insert(gbi_opcode_table, opcode, cmd)
    /\ calls' = gbi_call("register", <<opcode, cmd>>)
    /\ op' = "register"
    /\ UNCHANGED <<mem, status, stack, last, runs, rdp, rsp, gfx>>

\* GBI::handle_command, called with r as its outcome: the result the handler returned is
\* logged with the command's opcode
handled(command, r) ==
    /\ status = "idle"
    /\ Len(calls) < MaxCalls
    /\ status' = IF r.panic \/ r.w.panic THEN "panic" ELSE "idle"
    /\ calls' = gbi_call("handle_command", <<Field(command.w0, 24, 8), r.res.kind>>)
    /\ rdp' = r.w.rdp
    /\ rsp' = r.w.rsp
    /\ gfx' = r.w.gfx
    /\ last' = [last EXCEPT !.kind = r.res.kind]
    /\ op' = "handle_command"
    /\ UNCHANGED <<mem, gbi_opcode_table, stack, runs>>

dispatch(command) == handled(command, handle_command(gbi_opcode_table, World, command))

GBI_new == <<>>

InitRegister ==
    /\ mem = [a \in Addr |-> Cmd(G_ENDDL, NoArg)]
    /\ gbi_opcode_table = GBI_new
    /\ status = "idle"
    /\ stack = <<>>
    /\ last = NoStep
    /\ runs = 0
    /\ rdp = RDP_new
    /\ rsp = RSP_new
    /\ gfx = GFX_new
    /\ calls = <<>>
    /\ op = "new"

NextRegister ==
    \/ \E opcode \in {G_NOOP, G_DL} :
          \E cmd \in {"gsp_noop", "gsp_display_list", "gsp_end_display_list"} :
              register(opcode, cmd)
    \/ \E command \in {Cmd(G_NOOP, NoArg), Cmd(G_DL, [addr |-> 1]), Cmd(G_ENDDL, NoArg)} :
          dispatch(command)

SpecRegister == InitRegister /\ [][NextRegister]_vars

-----------------------------------------------------------------------------
(* Texture slots: flush_textures under every filter, cycle type and kind of combine *)

\* a combine expression that reads no texel 1, and one that does
SlotCombines == {CombineA, CombineD}

InitSlots ==
    /\ mem = [a \in Addr |-> Cmd(G_ENDDL, NoArg)]
    /\ gbi_opcode_table = setup
    /\ status = "idle"
    /\ stack = <<>>
    /\ last = NoStep
    /\ runs = 0
    /\ \E cycle_type \in 0 .. 3, textfilt \in 0 .. 3, combine \in SlotCombines :
          rdp = [RDP_new EXCEPT
                    !.tile_descriptors = [index \in 0 .. 7 |->
                        IF index = 1
                        THEN [format |-> ImageFormat.G_IM_FMT_IA, size |-> ImageSize.G_IM_SIZ_8b,
                              cm_s |-> 0, cm_t |-> 0]
                        ELSE [format |-> ImageFormat.G_IM_FMT_RGBA,
                              size |-> ImageSize.G_IM_SIZ_16b, cm_s |-> 0, cm_t |-> 0]],
                    !.tmem_map = {[tile_number |-> 0, address |-> 1],
                                  [tile_number |-> 1, address |-> 1]},
                    !.combine = combine,
                    !.other_mode_h = U32(cycle_type * Pow2(G_MDSFT_CYCLETYPE - 16),
                                         textfilt * Pow2(G_MDSFT_TEXTFILT))]
    /\ rsp = RSP_new
    /\ gfx = GFX_new
    /\ calls = <<>>
    /\ op = "new"

NextSlots ==
    \/ RDPSetTextureChangedAtIndex
    \/ set_tile_wrap
    \/ RDPFlushTextures
    \/ host_add_triangle

SpecSlots == InitSlots /\ [][NextSlots]_vars

-----------------------------------------------------------------------------
(* Viewport and scissor: the bridge of SpecBridge and the viewport of a move-memory *)

\* the move-memory handler on a viewport, called on its own
movemem_viewport ==
    host("gsp_movemem", gsp_movemem(World, Cmd(G_MOVEMEM, Viewport_320_240)).w)

NextViewport ==
    \/ RDPSetViewportOrScissorChanged
    \/ RDPSetViewport
    \/ RDPGetScissorPtr
    \/ RDPSetRenderingStateViewport
    \/ RDPSetRenderingStateScissor
    \/ movemem_viewport
    \/ RDPUpdateRenderState
    \/ host_add_triangle

SpecViewport == InitRDP /\ [][NextViewport]_vars

-----------------------------------------------------------------------------
(* Shader programs: RDPLookupOrCreateShaderProgram on a few shader ids *)

ShaderIds == {1, 2, 3}

\* the bridge function called with one shader id
lookup_or_create_shader(shader_id) ==
    host("RDPLookupOrCreateShaderProgram", lookup_or_create_shader_program(World, shader_id))

RDPLookupOrCreateShaderProgram == \E shader_id \in ShaderIds : lookup_or_create_shader(shader_id)

\* the host stores a program of its own, or null, in the snapshot
RDPSetRenderingStateShaderProgram ==
    \E prg \in {NULL} \cup DOMAIN gfx.shaders :
        host_set([World EXCEPT !.rdp.rendering_state.shader_program = prg])

NextShader ==
    \/ RDPLookupOrCreateShaderProgram
    \/ RDPSetRenderingStateShaderProgram
    \/ host_add_triangle

SpecShader == InitRDP /\ [][NextShader]_vars

-----------------------------------------------------------------------------
(* Properties *)

opcode_of(command) == Field(command.w0, 24, 8)

\* C1: a command whose opcode has no registered handler does not abort the walk: the
\* opcode is reported as unknown, the cursor of its level moves on by exactly one
\* command and the walk is still running.
C1_UnknownOpcodeSkipped ==
    (op = "run_dl" /\ last.at \in DOMAIN mem /\ last.kind # "Fault"
        /\ opcode_of(mem[last.at]) \notin DOMAIN gbi_opcode_table)
    => /\ status = "running"
       /\ last.kind = "Unknown"
       /\ Len(stack) = last.depth
       /\ stack[last.depth] = last.at + 1

\* C2: a Recurse result opens a new level at the target and leaves every cursor of the
\* calling levels at its call site; a level is closed by a Return only, and the caller
\* then resumes at the command right after its call site. Levels open and close in no
\* other way, at any depth.
C2_CallReturnOrder ==
    [][(op' = "run_dl" /\ status' = "running") =>
        /\ (last'.kind = "Recurse") <=> (Len(stack') > Len(stack))
        /\ (last'.kind = "Return") <=> (Len(stack') < Len(stack))
        /\ last'.kind = "Recurse" =>
            /\ Len(stack') = Len(stack) + 1
            /\ SubSeq(stack', 1, Len(stack)) = stack
            /\ stack[Len(stack)] \in DOMAIN mem =>
                    stack'[Len(stack')] = mem[stack[Len(stack)]].w1.addr
        /\ last'.kind = "Return" =>
            /\ Len(stack') = Len(stack) - 1
            /\ \A i \in 1 .. (Len(stack) - 2) : stack'[i] = stack[i]
            /\ stack'[Len(stack')] = stack[Len(stack) - 1] + 1
      ]_vars

\* a list nested two levels deep has returned into a list that has itself returned to
\* its caller, which resumes right after the call
C2_Witness ==
    /\ status = "running"
    /\ last.kind = "Return"
    /\ last.depth = 2
    /\ last.deepest >= 3
    /\ Len(stack) = 1
    /\ (stack[1] - 1) \in DOMAIN mem
    /\ opcode_of(mem[stack[1] - 1]) = G_DL

\* C3: a Return result ends the innermost level and nothing else: at top level the run
\* is over with the cursor left on the terminator and no further command is dispatched
\* until the next run, below top level exactly one level is closed and the walk goes on.
C3_ReturnEndsLevel ==
    [][/\ (op' = "run_dl" /\ last'.kind = "Return") =>
            IF Len(stack) = 1
            THEN status' = "done" /\ stack' = stack /\ stack[1] = last'.at
            ELSE status' = "running" /\ Len(stack') = Len(stack) - 1
       /\ status = "done" => op' = "run"
      ]_vars

\* a run that went through a nested list has ended on the top-level terminator
C3_Witness ==
    /\ status = "done"
    /\ last.kind = "Return"
    /\ last.depth = 1
    /\ last.deepest >= 2
    /\ stack = <<last.at>>
    /\ last.at \in DOMAIN mem
    /\ opcode_of(mem[last.at]) = G_ENDDL

\* the list starting at a has a terminator
HasEnd(a) == \E k \in DOMAIN mem : k >= a /\ opcode_of(mem[k]) = G_ENDDL

\* the terminator of the list starting at a
ListEnd(a) ==
    CHOOSE k \in DOMAIN mem :
        /\ k >= a
        /\ opcode_of(mem[k]) = G_ENDDL
        /\ \A j \in a .. (k - 1) : opcode_of(mem[j]) # G_ENDDL

\* the lists called from the list starting at a
Callees(a) ==
    IF a \in DOMAIN mem /\ HasEnd(a)
    THEN {mem[k].w1.addr : k \in {j \in a .. (ListEnd(a) - 1) : opcode_of(mem[j]) = G_DL}}
    ELSE {}

RECURSIVE Reach(_, _)
Reach(S, n) == IF n = 0 THEN S ELSE Reach(S \cup UNION {Callees(a) : a \in S}, n - 1)

\* every list reachable from the start ends in a terminator and no list calls itself
WellFormed ==
    \A a \in Reach({0}, Cardinality(DOMAIN mem)) :
        /\ HasEnd(a)
        /\ a \notin Reach(Callees(a), Cardinality(DOMAIN mem))

\* C4: on a well-formed display list the run never ends abnormally, the cursor never
\* leaves the lists, and when the run is over the top-level cursor is exactly on the
\* terminator of the top-level list.
C4_WellFormedTerminates ==
    WellFormed =>
        /\ status \notin {"panic", "overflow", "fault"}
        /\ status = "running" => stack[Len(stack)] \in DOMAIN mem
        /\ status = "done" => stack = <<ListEnd(0)>>

\* C5: the number of simultaneously active run_dl levels stays below a fixed maximum
\* for every display list, so the recursion never exhausts the native stack.
C5_DepthBounded == status # "overflow"

\* C6: when run hands over to the first dispatch the RDP is as freshly constructed:
\* empty batch buffer, zero mode words and combine, no texture or viewport flag set.
C6_RunResets ==
    op = "run" =>
        /\ rdp.buf_vbo_len = RDP_new.buf_vbo_len
        /\ rdp.buf_vbo_num_tris = RDP_new.buf_vbo_num_tris
        /\ rdp.other_mode_l = RDP_new.other_mode_l
        /\ rdp.other_mode_h = RDP_new.other_mode_h
        /\ rdp.combine = RDP_new.combine
        /\ rdp.textures_changed = RDP_new.textures_changed
        /\ rdp.viewport_or_scissor_changed = RDP_new.viewport_or_scissor_changed

StateSetters ==
    {"set_depth_test", "set_depth_compare", "set_depth_write", "set_polygon_offset",
     "set_blend_state", "set_viewport", "set_scissor"}

\* C7: every backend state setter called by update_render_state finds the batch buffer
\* empty: the geometry batched before was submitted first, under the previous state.
C7_FlushBeforeSetter ==
    op = "RDPUpdateRenderState" =>
        \A i \in DOMAIN calls : calls[i].fn \in StateSetters => calls[i].pending = 0

\* update_render_state has submitted a pending batch and then changed a piece of state
C7_Witness ==
    /\ op = "RDPUpdateRenderState"
    /\ Len(calls) >= 2
    /\ calls[1].fn = "draw_triangles"
    /\ calls[1].pending > 0
    /\ calls[2].fn \in StateSetters

\* C8: when a flush has just completed every field of the snapshot equals the value
\* last submitted to the backend for that field.
C8_SnapshotIsSubmitted ==
    op = "RDPFlush" =>
        \A field \in DOMAIN gfx \cap DOMAIN rdp.rendering_state :
            gfx[field] # <<>> => gfx[field] = <<rdp.rendering_state[field]>>

\* C9: the list [SetCombine(A), Triangle, SetViewport(0,0,320,240), Triangle, End] run
\* once submits exactly two batches of one triangle each, with set_viewport between.
C9_TwoBatches ==
    (mem = E2EList /\ runs = 1 /\ status = "done") =>
        /\ Cardinality({n \in DOMAIN calls : calls[n].fn = "draw_triangles"}) = 2
        /\ \E i, j, k \in DOMAIN calls :
            /\ i < j /\ j < k
            /\ calls[i].fn = "draw_triangles" /\ calls[i].arg[2] = 1
            /\ calls[j].fn = "set_viewport"
            /\ calls[k].fn = "draw_triangles" /\ calls[k].arg[2] = 1

\* C10: the batch buffer stays within its capacity and no append is made to a full
\* buffer.
C10_WithinCapacity ==
    /\ rdp.buf_vbo_num_tris <= MAX_VBO_SIZE
    /\ rdp.buf_vbo_len <= VBO_FLOATS
    /\ status # "panic"

RECURSIVE SumTris(_)
\* the triangle counts passed to draw_triangles in a sequence of backend calls, added up
SumTris(cs) ==
    IF cs = <<>> THEN 0
    ELSE (IF Head(cs).fn = "draw_triangles" THEN Head(cs).arg[2] ELSE 0) + SumTris(Tail(cs))

\* C11: emitting one more triangle with no state change never fails and never loses
\* or repeats a triangle: submitted plus pending triangles grow by exactly one, and
\* the only submission an emission can force is the one full batch of MAX_VBO_SIZE
\* triangles at the capacity boundary.
C11_NoTriangleLost ==
    [][op' = "host_add_triangle" =>
        /\ status' # "panic"
        /\ SumTris(calls') + rdp'.buf_vbo_num_tris = rdp.buf_vbo_num_tris + 1
        /\ calls' # <<>> =>
            /\ Len(calls') = 1
            /\ calls'[1].fn = "draw_triangles"
            /\ calls'[1].arg[2] = MAX_VBO_SIZE
      ]_vars

\* update_render_state has just completed
Updated == op = "RDPUpdateRenderState" /\ status # "panic"

Translated(rs) ==
    [depth_compare |-> rs.depth_compare,
     depth_write |-> rs.depth_write,
     depth_test |-> rs.depth_test,
     polygon_offset |-> rs.polygon_offset,
     blend_state |-> rs.blend_state]

\* C13: the translated state depends on the mode registers and the geometry mode only:
\* an RDP with any history ends update_render_state with the same depth compare, depth
\* write, depth test, polygon offset and blend state as a fresh RDP given the same
\* other_mode_l, other_mode_h and geometry mode.
C13_PureTranslation ==
    Updated =>
        Translated(rdp.rendering_state) =
            Translated(update_render_state(
                           [World_new EXCEPT !.rdp.other_mode_l = rdp.other_mode_l,
                                             !.rdp.other_mode_h = rdp.other_mode_h],
                           rsp.geometry_mode).rdp.rendering_state)

\* the render mode asks for blending: FORCE_BL set and M_2 naming the framebuffer colour
ForcedBlend ==
    /\ Field(rdp.other_mode_l, FORCE_BL, 1) = 1
    /\ Field(rdp.other_mode_l, M_2, 2) = G_BL_CLR_MEM

\* the render mode selects a source factor of One: coverage selected without coverage
\* times alpha, and the alpha selector is not the constant zero
CoverageOne ==
    /\ Field(rdp.other_mode_l, A_2, 2) # G_BL_0
    /\ Field(rdp.other_mode_l, ALPHA_CVG_SEL, 1) = 1
    /\ Field(rdp.other_mode_l, CVG_X_ALPHA, 1) = 0

\* C14: without FORCE_BL or with M_2 other than G_BL_CLR_MEM update_render_state
\* completes and the blend state is the opaque replace state (One, Zero, Add) for colour
\* and alpha; with both, the blend state is a blending one, equal to replace only where
\* the factors themselves come out as One and Zero.
C14_BlendEnabled ==
    /\ (op = "RDPUpdateRenderState" /\ ~ForcedBlend) =>
            /\ status # "panic"
            /\ rdp.rendering_state.blend_state =
                    [color |-> [src_factor |-> "One", dst_factor |-> "Zero", operation |-> "Add"],
                     alpha |-> [src_factor |-> "One", dst_factor |-> "Zero", operation |-> "Add"]]
    /\ (Updated /\ ForcedBlend) =>
            /\ rdp.rendering_state.blend_state.color = rdp.rendering_state.blend_state.alpha
            /\ rdp.rendering_state.blend_state.color.operation = "Add"
            /\ (rdp.rendering_state.blend_state.color.src_factor = "One"
                    /\ rdp.rendering_state.blend_state.color.dst_factor = "Zero")
                <=> (CoverageOne /\ Field(rdp.other_mode_l, B_2, 2) \in {G_BL_1MA, G_BL_0})

\* a forced-blend mode has been translated into a blending state
C14_Witness ==
    /\ Updated
    /\ ForcedBlend
    /\ rdp.rendering_state.blend_state.color.src_factor = "SrcAlpha"
    /\ rdp.rendering_state.blend_state.color.dst_factor = "OneMinusSrcAlpha"
    /\ gfx.blend_state = <<rdp.rendering_state.blend_state>>

\* C15: with blending enabled the source factor is Zero when A_2 is G_BL_0, otherwise
\* One when ALPHA_CVG_SEL is set and CVG_X_ALPHA is clear, otherwise SrcAlpha.
C15_SourceFactor ==
    (Updated /\ ForcedBlend) =>
        rdp.rendering_state.blend_state.color.src_factor =
            (IF Field(rdp.other_mode_l, A_2, 2) = G_BL_0 THEN "Zero"
             ELSE IF CoverageOne THEN "One" ELSE "SrcAlpha")

\* coverage and coverage times alpha are both selected: the source factor is SrcAlpha
C15_Witness ==
    /\ Updated
    /\ ForcedBlend
    /\ Field(rdp.other_mode_l, A_2, 2) # G_BL_0
    /\ Field(rdp.other_mode_l, ALPHA_CVG_SEL, 1) = 1
    /\ Field(rdp.other_mode_l, CVG_X_ALPHA, 1) = 1
    /\ rdp.rendering_state.blend_state.color.src_factor = "SrcAlpha"

\* C16: with blending enabled the destination factor follows B_2: G_BL_1MA gives
\* OneMinusSrcAlpha, or Zero when the source factor is One; G_BL_A_MEM gives DstAlpha;
\* G_BL_1 gives One; G_BL_0 gives Zero.
C16_DestinationFactor ==
    (Updated /\ ForcedBlend) =>
        rdp.rendering_state.blend_state.color.dst_factor =
            (CASE Field(rdp.other_mode_l, B_2, 2) = G_BL_1MA ->
                    (IF rdp.rendering_state.blend_state.color.src_factor = "One"
                     THEN "Zero" ELSE "OneMinusSrcAlpha")
               [] Field(rdp.other_mode_l, B_2, 2) = G_BL_A_MEM -> "DstAlpha"
               [] Field(rdp.other_mode_l, B_2, 2) = G_BL_1 -> "One"
               [] Field(rdp.other_mode_l, B_2, 2) = G_BL_0 -> "Zero")

\* C16 as amended: with blending enabled the destination factor follows B_2: G_BL_1MA
\* gives one minus the source factor, that is OneMinusSrcAlpha for SrcAlpha, Zero for
\* One and One for Zero; G_BL_A_MEM gives DstAlpha; G_BL_1 gives One; G_BL_0 gives Zero.
C16_DestinationFactorAmended ==
    (Updated /\ ForcedBlend) =>
        rdp.rendering_state.blend_state.color.dst_factor =
            (CASE Field(rdp.other_mode_l, B_2, 2) = G_BL_1MA ->
                    (CASE rdp.rendering_state.blend_state.color.src_factor = "SrcAlpha" ->
                                "OneMinusSrcAlpha"
                       [] rdp.rendering_state.blend_state.color.src_factor = "One" -> "Zero"
                       [] rdp.rendering_state.blend_state.color.src_factor = "Zero" -> "One")
               [] Field(rdp.other_mode_l, B_2, 2) = G_BL_A_MEM -> "DstAlpha"
               [] Field(rdp.other_mode_l, B_2, 2) = G_BL_1 -> "One"
               [] Field(rdp.other_mode_l, B_2, 2) = G_BL_0 -> "Zero")

\* G_BL_1MA met a source factor of Zero and gave One
C16_Witness ==
    /\ Updated
    /\ ForcedBlend
    /\ Field(rdp.other_mode_l, B_2, 2) = G_BL_1MA
    /\ rdp.rendering_state.blend_state.color.src_factor = "Zero"
    /\ rdp.rendering_state.blend_state.color.dst_factor = "One"

\* a combiner was generated by the latest operation
Generated ==
    /\ op = "RDPLookupOrCreateColorCombiner"
    /\ \E i \in DOMAIN calls : calls[i].fn = "lookup_shader"

\* the combiner generated by the latest operation
NewCombiner ==
    (CHOOSE e \in rdp.color_combiner_manager.combiners :
        <<e.cc_id>> = rdp.color_combiner_manager.current_combiner).combiner

\* the place of the first reference to an operand in a pass
FirstSeen(operands, operand) ==
    CHOOSE k \in 1 .. 4 : operands[k] = operand /\ \A j \in 1 .. (k - 1) : operands[j] # operand

\* the number of an operand in first-seen order among the operands of `inputs`
SlotOf(operands, operand, inputs) ==
    Cardinality({operands[k] : k \in {j \in 1 .. 4 :
        operands[j] \in inputs /\ FirstSeen(operands, operands[j]) <= FirstSeen(operands, operand)}})

\* the three bits of a shader id at place n
Digit(shader_id, n) == (shader_id \div Pow2(3 * n)) % 8

\* C17: in a generated combiner, an operand among primitive, shade, environment and
\* lod-fraction (colour pass) or primitive, shade and environment (alpha pass) has the
\* number 1..4 of its first reference in first-seen order within its pass, the same at
\* every reference, and it is the operand recorded for that number; texel 0, texel 1
\* and the alpha of texel 0 have their fixed shader sources and take no number.
C17_CanonicalSlots ==
    Generated =>
        \A i \in 1 .. 4 :
            /\ rdp.combine.c0[i] \in {CCMUX.PRIMITIVE, CCMUX.SHADE, CCMUX.ENVIRONMENT,
                                      CCMUX.LOD_FRACTION} =>
                /\ Digit(NewCombiner.shader_id, i - 1) \in 1 .. 4
                /\ Digit(NewCombiner.shader_id, i - 1) =
                     SlotOf(rdp.combine.c0, rdp.combine.c0[i],
                            {CCMUX.PRIMITIVE, CCMUX.SHADE, CCMUX.ENVIRONMENT,
                             CCMUX.LOD_FRACTION})
                /\ NewCombiner.shader_input_mapping[1][Digit(NewCombiner.shader_id, i - 1)]
                     = rdp.combine.c0[i]
            /\ rdp.combine.c0[i] = CCMUX.TEXEL0 =>
                Digit(NewCombiner.shader_id, i - 1) = SHADER.TEXEL0
            /\ rdp.combine.c0[i] = CCMUX.TEXEL1 =>
                Digit(NewCombiner.shader_id, i - 1) = SHADER.TEXEL1
            /\ rdp.combine.c0[i] = CCMUX.TEXEL0_ALPHA =>
                Digit(NewCombiner.shader_id, i - 1) = SHADER.TEXEL0A
            /\ rdp.combine.a0[i] \in {ACMUX.PRIMITIVE, ACMUX.SHADE, ACMUX.ENVIRONMENT} =>
                /\ Digit(NewCombiner.shader_id, i + 3) \in 1 .. 4
                /\ Digit(NewCombiner.shader_id, i + 3) =
                     SlotOf(rdp.combine.a0, rdp.combine.a0[i],
                            {ACMUX.PRIMITIVE, ACMUX.SHADE, ACMUX.ENVIRONMENT})
                /\ NewCombiner.shader_input_mapping[2][Digit(NewCombiner.shader_id, i + 3)]
                     = rdp.combine.a0[i]
            /\ rdp.combine.a0[i] = ACMUX.TEXEL0 =>
                Digit(NewCombiner.shader_id, i + 3) = SHADER.TEXEL0
            /\ rdp.combine.a0[i] = ACMUX.TEXEL1 =>
                Digit(NewCombiner.shader_id, i + 3) = SHADER.TEXEL1

\* a combiner generated from an expression that repeats an operand after a texel and
\* another operand: shade, texel 0, primitive, shade
C17_Witness ==
    /\ Generated
    /\ rdp.combine = CombineB
    /\ Digit(NewCombiner.shader_id, 0) = 1
    /\ Digit(NewCombiner.shader_id, 1) = SHADER.TEXEL0
    /\ Digit(NewCombiner.shader_id, 2) = 2
    /\ Digit(NewCombiner.shader_id, 3) = 1

\* C18: a lookup of a combine id that is in the cache generates nothing, with no
\* backend call, no shader created and the RDP left as it was; a lookup generates at
\* most one combiner; and no operation removes or replaces an entry of the cache.
C18_GeneratedOnce ==
    [][/\ \A e \in rdp.color_combiner_manager.combiners :
            e \in rdp'.color_combiner_manager.combiners
       /\ \A cc_id \in CcIds :
            (/\ lookup_or_create(cc_id)
             /\ \E e \in rdp.color_combiner_manager.combiners : e.cc_id = cc_id) =>
                /\ calls' = <<>>
                /\ rdp' = rdp
                /\ gfx' = gfx
       /\ op' = "RDPLookupOrCreateColorCombiner" =>
            Cardinality({i \in DOMAIN calls' : calls'[i].fn = "lookup_shader"}) <= 1
      ]_vars

\* a combine id in the cache was looked up again
C18_Witness ==
    /\ op = "RDPLookupOrCreateColorCombiner"
    /\ calls = <<>>
    /\ rdp.color_combiner_manager.combiners # {}

\* C19: a lookup of a combine id that is not in the cache adds one entry under that id
\* and keeps every other entry, an entry with the same shader id included: the cache
\* is keyed by the combine id, and an id has one entry at most.
C19_KeyedByCombineId ==
    [][\A cc_id \in CcIds :
        (/\ lookup_or_create(cc_id)
         /\ \A e \in rdp.color_combiner_manager.combiners : e.cc_id # cc_id) =>
            \E new \in rdp'.color_combiner_manager.combiners :
                /\ new.cc_id = cc_id
                /\ new \notin rdp.color_combiner_manager.combiners
                /\ rdp'.color_combiner_manager.combiners =
                     rdp.color_combiner_manager.combiners \cup {new}
                /\ \A e \in rdp.color_combiner_manager.combiners : e.cc_id # new.cc_id
      ]_vars

\* the ids of CombineB and CombineC, two expressions of one canonical form, are both in
\* the cache, their combiners having the same shader id
C19_Witness ==
    /\ Generated
    /\ \E b, c \in rdp.color_combiner_manager.combiners :
        /\ b.cc_id = cc_id_of(CombineB, 0)
        /\ c.cc_id = cc_id_of(CombineC, 0)
        /\ b.combiner.shader_id = c.combiner.shader_id
        /\ Digit(b.combiner.shader_id, 0) = SHADER.INPUT_1
        /\ Digit(b.combiner.shader_id, 1) = SHADER.TEXEL0
        /\ Digit(b.combiner.shader_id, 2) = SHADER.INPUT_2

\* the key under which an import of a texture slot looks the texture up
ImportKey(tile) ==
    TextureKey(tile, rdp.texture_image_state.address,
               rdp.tile_descriptors[rdp.texture_state.tile].format,
               rdp.tile_descriptors[rdp.texture_state.tile].size)

\* the decoder and upload calls among the calls of an operation
Decodes(cs) ==
    {i \in DOMAIN cs : cs[i].fn \notin {"upload_texture", "draw_triangles", "translate_tlut",
                                        "set_sampler_parameters"}}

Uploads(cs) == {i \in DOMAIN cs : cs[i].fn = "upload_texture"}

\* C20: the first import of a key that completes decodes once and uploads once and
\* puts the key in the cache; every import of a key in the cache decodes nothing,
\* uploads nothing, leaves the cache as it is and hands the slot the texture cached
\* under the key; and the texture cached under a key never changes. So N imports of
\* one key decode and upload once.
C20_DecodedOnce ==
    [][/\ \A e \in rdp.texture_manager : e \in rdp'.texture_manager
       /\ \A tile \in {0, 1} :
            /\ (import(tile) /\ \E e \in rdp.texture_manager : e.key = ImportKey(tile)) =>
                /\ calls' = <<>>
                /\ status' = "idle"
                /\ rdp'.texture_manager = rdp.texture_manager
                /\ \E e \in rdp.texture_manager :
                    /\ e.key = ImportKey(tile)
                    /\ rdp'.rendering_state.textures[tile + 1] = e.texture
            /\ (/\ import(tile)
                /\ status' = "idle"
                /\ \A e \in rdp.texture_manager : e.key # ImportKey(tile)) =>
                /\ Cardinality(Decodes(calls')) = 1
                /\ Cardinality(Uploads(calls')) = 1
                /\ \E e \in rdp'.texture_manager :
                    /\ e.key = ImportKey(tile)
                    /\ rdp'.rendering_state.textures[tile + 1] = e.texture
      ]_vars

\* a key in the cache was imported again: the slot holds the cached texture, the first
\* one inserted, and nothing was decoded or uploaded
C20_Witness ==
    /\ op = "RDPImportTileTexture"
    /\ status = "idle"
    /\ calls = <<>>
    /\ Cardinality(rdp.texture_manager) = 2
    /\ \E tile \in {0, 1} :
        /\ rdp.rendering_state.textures[tile + 1].key = ImportKey(tile)
        /\ rdp.rendering_state.textures[tile + 1].number = 1

\* C21: every set_sampler_parameters call of flush_textures finds the batch buffer
\* empty, the pending geometry having been submitted before the sampler changes, and
\* is made for a slot whose required filter or wrap modes differ from its texture's.
C21_FlushBeforeSampler ==
    op = "RDPFlushTextures" =>
        \A n \in DOMAIN calls :
            calls[n].fn = "set_sampler_parameters" => calls[n].pending = 0

\* the palette decodes among the calls of an operation
Palettes(cs) == {i \in DOMAIN cs : cs[i].fn = "translate_tlut"}

\* C22: an import that decodes a CI4 or CI8 tile decodes its palette once, from the
\* address of the TMEM entry at u16::MAX - slot, in the mode of bits 14-15 of
\* other_mode_h, and cannot complete without that entry; an import of a tile of another
\* format decodes no palette and completes whether or not that entry exists.
C22_PaletteAtComplement ==
    [][\A tile \in {0, 1} :
        (/\ import(tile)
         /\ \A e \in rdp.texture_manager : e.key # ImportKey(tile)
         /\ \E e \in rdp.tmem_map : e.tile_number = tile) =>
            IF rdp.tile_descriptors[rdp.texture_state.tile].format = ImageFormat.G_IM_FMT_CI
            THEN /\ status' = "idle" <=> \E e \in rdp.tmem_map : e.tile_number = 65535 - tile
                 /\ status' = "idle" =>
                    /\ Cardinality(Palettes(calls')) = 1
                    /\ \A n \in Palettes(calls') :
                        /\ \E e \in rdp.tmem_map :
                            /\ e.tile_number = 65535 - tile
                            /\ calls'[n].arg[1] = e.address
                        /\ calls'[n].arg[3] = Field(rdp.other_mode_h, 14, 2)
            ELSE /\ status' = "idle"
                 /\ Palettes(calls') = {}
      ]_vars

\* a CI tile was imported with its palette at another address than its texels, in the
\* RGBA16 palette mode
C22_Witness ==
    /\ op = "RDPImportTileTexture"
    /\ status = "idle"
    /\ \E n \in Palettes(calls), e \in rdp.tmem_map :
        /\ calls[n].arg[3] = 2
        /\ e.tile_number \in {0, 1}
        /\ rdp.rendering_state.textures[e.tile_number + 1].number = Cardinality(rdp.texture_manager)
        /\ e.address # calls[n].arg[1]

\* C23: flush_textures called with the LOD bit of other_mode_h set does not abort; it
\* goes on as with the bit clear, so a changed slot 0 is imported and its flag cleared.
C23_LodDowngraded ==
    (op = "RDPFlushTextures" /\ Field(rdp.other_mode_h, G_MDSFT_TEXTLOD, 1) # 0) =>
        /\ status # "panic"
        /\ ~rdp.textures_changed[1]

\* C24: an import of a tile whose format and size have no decoder does not end the
\* program: the failure is reported and the interpreter can be used again.
C24_UnsupportedRecoverable ==
    [][\A tile \in {0, 1} :
          (/\ import(tile)
           /\ tmem_mapped(World, tile)
           /\ translate_tile(rdp.tile_descriptors[rdp.texture_state.tile].format,
                             rdp.tile_descriptors[rdp.texture_state.tile].size) = "panic")
              => status' # "panic"]_vars

\* C25: RDPUpdateRenderState with a vertex id outside the vertex staging table fails:
\* the call panics on the checked index, no other entry is read in its place, and the
\* RDP with its RenderingState snapshot and batch buffer, and the backend, are as before.
C25_OutOfRangeFails ==
    [][\A vertex_id1, vertex_id2, vertex_id3 \in VertexIds :
          (/\ update_render_state_of(vertex_id1, vertex_id2, vertex_id3)
           /\ {vertex_id1, vertex_id2, vertex_id3} \ DOMAIN rsp.vertex_table # {})
              => /\ status' = "panic"
                 /\ rdp' = rdp
                 /\ gfx' = gfx
                 /\ calls' = <<>>]_vars

\* a call with an id outside the table has failed with a batch pending and a snapshot
\* that a call with ids inside the table would have changed
C25_Witness ==
    /\ op = "RDPUpdateRenderState"
    /\ status = "panic"
    /\ rdp.buf_vbo_len > 0
    /\ ~update_render_state(World, rsp.geometry_mode).panic
    /\ update_render_state(World, rsp.geometry_mode).rdp.rendering_state # rdp.rendering_state

\* C26: every access to the array of 8 tile descriptors uses an index in 0..7: the
\* accessor on the u8 the host passes, and flush_textures at texture_state.tile + 1
\* when it gets past slot 0 and the second texture is in use.
C26_TileIndexInRange ==
    [][/\ RDPGetTileDescriptorTMEM => status' # "panic"
       /\ (/\ RDPFlushTextures
           /\ Field(rdp.other_mode_h, G_MDSFT_TEXTLOD, 1) = 0
           /\ ~flush_textures_slot(World, 0).panic
           /\ uses_texture1(World))
              => rdp.texture_state.tile + 1 \in 0 .. 7]_vars

\* the result each handler returns
ResultOf ==
    [gsp_noop |-> "Continue", gsp_display_list |-> "Recurse", gsp_end_display_list |-> "Return"]

\* the register calls for an opcode among the first n calls
Registered(opcode, n) ==
    {j \in 1 .. n : calls[j].fn = "register" /\ calls[j].arg[1] = opcode}

\* the handler of the last of them
LatestOf(opcode, n) ==
    calls[CHOOSE j \in Registered(opcode, n) : \A k \in Registered(opcode, n) : k <= j].arg[2]

\* C27: whatever register calls came before, handle_command invokes the handler most
\* recently registered for the opcode in the high byte of w0, and the opcode table holds
\* for every opcode the handler of its last register call: handle_command has left it
\* as it was.
C27_LatestHandler ==
    /\ \A i \in DOMAIN calls :
          (calls[i].fn = "handle_command" /\ Registered(calls[i].arg[1], i) # {})
              => calls[i].arg[2] = ResultOf[LatestOf(calls[i].arg[1], i)]
    /\ DOMAIN gbi_opcode_table = {o \in {G_NOOP, G_DL, G_ENDDL} : Registered(o, Len(calls)) # {}}
    /\ \A o \in DOMAIN gbi_opcode_table : gbi_opcode_table[o] = LatestOf(o, Len(calls))

\* an opcode was registered twice with different handlers, another opcode once, and the
\* first opcode was dispatched after that
C27_Witness ==
    /\ Len(calls) = 4
    /\ calls[4].fn = "handle_command"
    /\ status = "idle"
    /\ Cardinality(Registered(calls[4].arg[1], 3)) = 2
    /\ \E j, k \in Registered(calls[4].arg[1], 3) : calls[j].arg[2] # calls[k].arg[2]

\* C28: a step of the walk whose handler returned Continue leaves the cursor of its level
\* exactly one command further and every other level as it was; a step that changes the
\* cursors in any other way is a Recurse or a Return.
C28_ContinueAdvancesOne ==
    [][op' = "run_dl" =>
        /\ last'.kind = "Continue" => stack' = [stack EXCEPT ![Len(stack)] = @ + 1]
        /\ (stack' # stack /\ stack' # [stack EXCEPT ![Len(stack)] = @ + 1])
              => last'.kind \in {"Recurse", "Return"}
      ]_vars

\* a Continue inside a nested list has moved that list's cursor on by one
C28_Witness ==
    /\ status = "running"
    /\ last.kind = "Continue"
    /\ last.depth >= 2
    /\ Len(stack) = last.depth
    /\ stack[Len(stack)] = last.at + 1

\* C29: a flush of a non-empty batch makes one backend call, draw_triangles with the
\* batch's length and triangle count, and leaves both at zero and the rest of the RDP as
\* it was; a flush of an empty batch makes no call and changes nothing; so a flush right
\* after a flush submits nothing.
C29_FlushOnce ==
    [][RDPFlush =>
        /\ gfx' = gfx
        /\ rdp.buf_vbo_len > 0 =>
              /\ calls' = <<[fn |-> "draw_triangles",
                             arg |-> <<rdp.buf_vbo_len, rdp.buf_vbo_num_tris>>,
                             pending |-> rdp.buf_vbo_len]>>
              /\ rdp' = [rdp EXCEPT !.buf_vbo_len = 0, !.buf_vbo_num_tris = 0]
        /\ rdp.buf_vbo_len = 0 => (calls' = <<>> /\ rdp' = rdp)
        /\ op = "RDPFlush" => calls' = <<>>
      ]_vars

\* a flush has submitted a batch of two triangles and emptied the buffer
C29_Witness ==
    /\ op = "RDPFlush"
    /\ Len(calls) = 1
    /\ calls[1].arg = <<2 * (VTX_FLOATS * TRI_VTXS), 2>>
    /\ rdp.buf_vbo_len = 0
    /\ rdp.buf_vbo_num_tris = 0

\* slot i is processed by flush_textures and its flag is set
Flagged(i) == rdp.textures_changed[i + 1] /\ (i = 0 \/ uses_texture1(World))

\* the cache entries of slot i
CachedOf(r, i) == {e \in r.texture_manager : e.key.tmem_index = i}

\* C30: a flush_textures that returns (LOD off) has, for every processed slot whose flag
\* was set, submitted the pending batch before any decode or upload, imported the slot's
\* tile (the slot holds the texture cached under its key) and cleared the flag; a slot
\* that is not processed or whose flag was clear is not imported and keeps its flag; and
\* textures_changed[0] is false.
C30_FlushImportClear ==
    [][(RDPFlushTextures /\ status' = "idle") =>
        /\ ~rdp'.textures_changed[1]
        /\ \A i \in {0, 1} :
              /\ Flagged(i) =>
                    /\ ~rdp'.textures_changed[i + 1]
                    /\ rdp'.rendering_state.textures[i + 1].key = ImportKey(i)
                    /\ \E e \in CachedOf(rdp', i) : e.key = ImportKey(i)
              /\ ~Flagged(i) =>
                    /\ rdp'.textures_changed[i + 1] = rdp.textures_changed[i + 1]
                    /\ rdp'.rendering_state.textures[i + 1].key
                          = rdp.rendering_state.textures[i + 1].key
                    /\ CachedOf(rdp', i) = CachedOf(rdp, i)
        /\ (\E i \in {0, 1} : Flagged(i)) =>
              /\ \A k \in Decodes(calls') \cup Uploads(calls') : calls'[k].pending = 0
              /\ rdp'.buf_vbo_len = 0
              /\ rdp.buf_vbo_len > 0 =>
                    \E d \in DOMAIN calls' :
                        /\ calls'[d].fn = "draw_triangles"
                        /\ \A k \in Decodes(calls') \cup Uploads(calls') : d < k
        /\ (\A i \in {0, 1} : ~Flagged(i)) =>
              \A k \in DOMAIN calls' : calls'[k].fn = "set_sampler_parameters"
      ]_vars

\* flush_textures has submitted a pending batch, then decoded and uploaded the tile of
\* slot 0 with the batch empty, and the flag of slot 0 is clear
C30_Witness ==
    /\ op = "RDPFlushTextures"
    /\ status = "idle"
    /\ Len(calls) >= 3
    /\ calls[1].fn = "draw_triangles"
    /\ calls[2].fn = "translate_tile_rgba16"
    /\ calls[2].pending = 0
    /\ calls[3].fn = "upload_texture"
    /\ ~rdp.textures_changed[1]
    /\ rdp.rendering_state.textures[1].key.fmt = ImageFormat.G_IM_FMT_RGBA

\* slot i of the snapshot carries the sampler parameters of tile descriptor
\* texture_state.tile + i and of the filter of other_mode_h as they were before the step
SamplerApplied(i) ==
    /\ rdp'.rendering_state.textures[i + 1].linear_filter
          = (Field(rdp.other_mode_h, G_MDSFT_TEXTFILT, 2) # TextFilt.G_TF_POINT)
    /\ rdp'.rendering_state.textures[i + 1].cms
          = rdp.tile_descriptors[rdp.texture_state.tile + i].cm_s
    /\ rdp'.rendering_state.textures[i + 1].cmt
          = rdp.tile_descriptors[rdp.texture_state.tile + i].cm_t

\* the combine register names texel 1 in one of its passes
ReadsTexel1 ==
    \/ CCMUX.TEXEL1 \in {rdp.combine.c0[i] : i \in 1 .. 4}
    \/ ACMUX.TEXEL1 \in {rdp.combine.a0[i] : i \in 1 .. 4}

\* C31: a flush_textures that returns has processed slot 0 (its flag is clear, its
\* sampler parameters are the current ones); it has processed slot 1 in the same way
\* exactly when the cycle type is two-cycle and the combine expression reads texel 1,
\* and has otherwise left textures_changed[1] and rendering_state.textures[1] alone.
C31_SlotsProcessed ==
    [][(RDPFlushTextures /\ status' = "idle") =>
        /\ ~rdp'.textures_changed[1]
        /\ SamplerApplied(0)
        /\ IF Field(rdp.other_mode_h, G_MDSFT_CYCLETYPE, 2) = G_CYC_2CYCLE /\ ReadsTexel1
           THEN ~rdp'.textures_changed[2] /\ SamplerApplied(1)
           ELSE /\ rdp'.textures_changed[2] = rdp.textures_changed[2]
                /\ rdp'.rendering_state.textures[2] = rdp.rendering_state.textures[2]
      ]_vars

\* flush_textures has returned in two-cycle mode with a combine that reads no texel 1:
\* slot 0 was imported, slot 1 still has its flag set and no texture
C31_Witness ==
    /\ op = "RDPFlushTextures"
    /\ status = "idle"
    /\ Field(rdp.other_mode_h, G_MDSFT_CYCLETYPE, 2) = G_CYC_2CYCLE
    /\ rdp.combine = CombineA
    /\ rdp.textures_changed = <<FALSE, TRUE>>
    /\ rdp.rendering_state.textures[1].number > 0
    /\ rdp.rendering_state.textures[2] = Texture_EMPTY

\* the arguments of the calls of a backend function among the calls of an operation
ArgsOf(cs, fn) == {cs[k].arg : k \in {j \in DOMAIN cs : cs[j].fn = fn}}

\* C32: update_render_state calls set_viewport exactly when viewport_or_scissor_changed
\* is set and the viewport differs from the snapshot's, with the RDP's viewport, and
\* likewise set_scissor; on return the flag is clear; with the flag set on entry the
\* snapshot's viewport and scissor are the RDP's, with the flag clear they are as
\* before. calculate_and_set_viewport leaves the flag set.
C32_ViewportWhenChanged ==
    [][/\ (RDPUpdateRenderState /\ status' = "idle") =>
            /\ ~rdp'.viewport_or_scissor_changed
            /\ ArgsOf(calls', "set_viewport") =
                  IF rdp.viewport_or_scissor_changed /\ rdp.viewport # rdp.rendering_state.viewport
                  THEN {rdp.viewport} ELSE {}
            /\ ArgsOf(calls', "set_scissor") =
                  IF rdp.viewport_or_scissor_changed /\ rdp.scissor # rdp.rendering_state.scissor
                  THEN {rdp.scissor} ELSE {}
            /\ rdp.viewport_or_scissor_changed =>
                  /\ rdp'.rendering_state.viewport = rdp'.viewport
                  /\ rdp'.rendering_state.scissor = rdp'.scissor
            /\ ~rdp.viewport_or_scissor_changed =>
                  /\ rdp'.rendering_state.viewport = rdp.rendering_state.viewport
                  /\ rdp'.rendering_state.scissor = rdp.rendering_state.scissor
            /\ rdp'.viewport = rdp.viewport
            /\ rdp'.scissor = rdp.scissor
       /\ movemem_viewport => rdp'.viewport_or_scissor_changed
      ]_vars

\* with the flag set, a viewport equal to the snapshot's and a scissor that differs,
\* update_render_state has submitted the scissor alone and cleared the flag
C32_Witness ==
    /\ op = "RDPUpdateRenderState"
    /\ status = "idle"
    /\ ArgsOf(calls, "set_scissor") = {Rect(0, 0, 320, 240)}
    /\ ArgsOf(calls, "set_viewport") = {}
    /\ ~rdp.viewport_or_scissor_changed
    /\ rdp.rendering_state.viewport = rdp.viewport

\* the backend functions called by an operation, in order
FnsOf(cs) == [k \in DOMAIN cs |-> cs[k].fn]

\* C33: lookup_or_create_shader_program on a shader id the backend knows makes no call
\* but lookup_shader and changes neither the RDP with its snapshot nor the backend; on
\* an id it does not know it unloads the snapshot's program, creates the shader, and the
\* snapshot's program is the new shader, which is what the backend now finds for the id.
\* No shader id is created twice.
C33_ShaderOnce ==
    [][\A shader_id \in ShaderIds :
          lookup_or_create_shader(shader_id) =>
             /\ \A h1, h2 \in DOMAIN gfx'.shaders :
                    gfx'.shaders[h1] = gfx'.shaders[h2] => h1 = h2
             /\ IF \E h \in DOMAIN gfx.shaders : gfx.shaders[h] = shader_id
                THEN /\ FnsOf(calls') = <<"lookup_shader">>
                     /\ rdp' = rdp
                     /\ gfx' = gfx
                ELSE /\ FnsOf(calls')
                          = <<"lookup_shader", "unload_shader", "create_and_load_new_shader">>
                     /\ calls'[2].arg = rdp.rendering_state.shader_program
                     /\ calls'[3].arg = shader_id
                     /\ gfx'.shaders = Append(gfx.shaders, shader_id)
                     /\ rdp'.rendering_state.shader_program = Len(gfx'.shaders)
                     /\ rdp' = [rdp EXCEPT !.rendering_state.shader_program =
                                                rdp'.rendering_state.shader_program]
      ]_vars

\* a shader the backend knows was looked up while the snapshot holds another program:
\* nothing but lookup_shader was called and the snapshot keeps its program
C33_Witness ==
    /\ op = "RDPLookupOrCreateShaderProgram"
    /\ Len(gfx.shaders) = 2
    /\ Len(calls) = 1
    /\ rdp.rendering_state.shader_program \in DOMAIN gfx.shaders
    /\ gfx.shaders[rdp.rendering_state.shader_program] # calls[1].arg

\* C34: when run has returned the batch buffer is empty: every triangle of the display
\* list was submitted by a draw_triangles call of that run.
C34_RunLeavesNoBatch ==
    status = "done" => (rdp.buf_vbo_len = 0 /\ rdp.buf_vbo_num_tris = 0)

\* C35: the texture flush_textures imports for a slot is decoded with the format and size
\* of the tile descriptor at texture_state.tile + i, the descriptor whose wrap modes it
\* applies to the slot.
C35_ImportTileOfSlot ==
    [][(RDPFlushTextures /\ status' = "idle") =>
        \A i \in {0, 1} :
            Flagged(i) =>
                /\ rdp'.rendering_state.textures[i + 1].key.fmt
                      = rdp.tile_descriptors[rdp.texture_state.tile + i].format
                /\ rdp'.rendering_state.textures[i + 1].key.siz
                      = rdp.tile_descriptors[rdp.texture_state.tile + i].size
      ]_vars

\* C36: an import that fails (no decoder for the format and size, or no TMEM map entry)
\* leaves the texture cache and rendering_state.textures as they were, so that the key
\* is not found in the cache by a later import.
C36_FailedImportNotCached ==
    [][\A tile \in {0, 1} :
          (import(tile) /\ status' = "panic") =>
              /\ rdp'.texture_manager = rdp.texture_manager
              /\ rdp'.rendering_state.textures = rdp.rendering_state.textures
      ]_vars

\* C37: update_render_state completes whatever other_mode_l holds: a render mode with
\* FORCE_BL and the destination colour G_BL_CLR_MEM yields a blend state for every
\* source colour P_2.
C37_EveryModeCompletes ==
    op = "RDPUpdateRenderState" =>
        /\ status # "panic"
        /\ rdp.rendering_state.blend_state = blend_state_of(rdp.other_mode_l)

\* the combine expression a combine id encodes: three bits an operand, the colour pass
\* from bit 0, the alpha pass from bit 12
CombineOfId(cc_id) ==
    [c0 |-> [i \in 1 .. 4 |-> Digit(cc_id, i - 1)],
     a0 |-> [i \in 1 .. 4 |-> Digit(cc_id, i + 3)]]

\* the combiner generated for a combine id while the combine register holds the
\* expression the id encodes
CombinerOfId(cc_id) ==
    (CHOOSE e \in generate_color_combiner([World EXCEPT !.rdp.combine = CombineOfId(cc_id)],
                                          cc_id).rdp.color_combiner_manager.combiners :
        e.cc_id = cc_id).combiner

\* C38: the combiner a lookup stores under a combine id has the shader id and the
\* operand-slot mapping of the expression the id encodes, whatever the combine register
\* holds at the time of the call.
C38_CombinerOfItsId ==
    [][\A cc_id \in CcIds :
        (/\ lookup_or_create(cc_id)
         /\ \A e \in rdp.color_combiner_manager.combiners : e.cc_id # cc_id) =>
            \A e \in rdp'.color_combiner_manager.combiners :
                e.cc_id = cc_id =>
                    /\ e.combiner.shader_id = CombinerOfId(cc_id).shader_id
                    /\ e.combiner.shader_input_mapping = CombinerOfId(cc_id).shader_input_mapping
      ]_vars

\* C39: under every interleaving of RDPAddToVBOAndIncrement,
\* RDPIncrementTriangleCountAndReturn and flush, the triangle count is zero
\* whenever the batch is empty, and right after a flush both the batch length
\* and the triangle count are zero.
C39_BatchConsistent ==
    /\ rdp.buf_vbo_len = 0 => rdp.buf_vbo_num_tris = 0
    /\ op = "RDPFlush" => (rdp.buf_vbo_len = 0 /\ rdp.buf_vbo_num_tris = 0)

\* C40: with mip-mapping off, flush_textures returns without a panic for each of the
\* four values of the texture-filter field and of the cycle-type field of other_mode_h,
\* and the linear-filter flag it applies to slot 0 is true exactly when the filter
\* field is not point.
C40_EveryFilterCompletes ==
    [][(/\ RDPFlushTextures
        /\ Field(rdp.other_mode_h, G_MDSFT_TEXTLOD, 1) = 0
        /\ ~rdp.textures_changed[1]
        /\ ~rdp.textures_changed[2]) =>
            /\ status' = "idle"
            /\ rdp'.rendering_state.textures[1].linear_filter
                  = (Field(rdp.other_mode_h, G_MDSFT_TEXTFILT, 2) # TextFilt.G_TF_POINT)
      ]_vars

====
